---- MODULE Spec2Model ----
(***************************************************************************)
(* Model of emillis/cacheMachine: the generic key/value cache with         *)
(* optional per-entry expiry timers (type Cache, entry, Requirements).     *)
(*                                                                         *)
(* What the model keeps of the Go semantics:                               *)
(*  - c.data is a Go map, a reference: the Store holds the identity of a   *)
(*    map object, the objects live in `maps`, and reset() allocates a new  *)
(*    one.                                                                 *)
(*  - A method with a value receiver, func (c Cache) M(), runs on a copy   *)
(*    of the Cache made when it is called: the copy shares the map object  *)
(*    (the reference is copied), holds the Requirements, and owns a copy   *)
(*    of the mutex c.mx in the state it had when it was copied. Only the   *)
(*    methods with a pointer receiver (GetAllAndRemove, Reset) lock the    *)
(*    Store's own mutex.                                                   *)
(*  - A copy of a locked sync.RWMutex is a locked mutex nobody unlocks:    *)
(*    Lock or RLock on it blocks for ever.                                 *)
(*  - time.AfterFunc runs its function in a goroutine of its own when the  *)
(*    timer fires; Timer.Stop keeps a timer that has not fired from        *)
(*    firing. Durations are abstracted: an armed timer fires at any later  *)
(*    moment.                                                              *)
(*  - Steps interleave at the granularity of the statements of a method;   *)
(*    one access to a map object (read, write, delete, range) is one step. *)
(***************************************************************************)
EXTENDS Integers, Sequences, FiniteSets, TLC

\* The goroutines of the program that call the Store.
Procs == {1, 2}
\* Keys and values the callers use.
Keys == {1, 2}
Vals == {1, 2}
\* The calls the callers make in one run, and the timers time.AfterFunc makes.
MaxCalls == 3
MaxTimers == 2
\* The zero value of TValue.
ZeroVal == 0
\* The durations a Store is built with: 0 (no timeout) and one non-zero one.
Timeouts == {0, 1}

VARIABLES
    Requirements,   \* cache.Requirements: [DefaultTimeout, timeoutInUse]
    target,         \* the program's other Cache: its Requirements and its map object
    data,           \* cache.data of the caller's Cache: the map object it refers to
    mx,             \* cache.mx of the caller's Cache: 0, or the goroutine holding Lock
    maps,           \* the map objects: maps[i] is a function key -> entry
    timers,         \* the time.Timer objects made by time.AfterFunc
    pc,             \* where each goroutine is in the method it runs
    op,             \* the call each goroutine is making
    recv,           \* the receiver copy of a call with a value receiver
    loc,            \* locals of the running method (loop state, e/exist, cpy)
    calls,          \* number of calls made so far
    nilHandle,      \* the *entry of an Add that armed no timer: "none" when no
                    \* caller holds one, else "held", or the last of ResetTimer
                    \* ("reset") and StopTimer ("stopped") called on one
    counterCache,   \* the Cache of the variant with a counter field under a
                    \* mutex: [data, mx, counter]
    chanCache       \* the Cache of the variant with a cacheManager goroutine:
                    \* [data, counter], and where the manager is (at), the
                    \* request it has received (req) and the response it sends
                    \* (resp)

vars ==
    <<Requirements, target, nilHandle, data, mx, maps, timers, pc, op, recv, loc, calls,
      counterCache, chanCache>>

\* The Caches of the two other variants of the package, which the calls on the
\* Store leave alone.

----------------------------------------------------------------------------
\* Data

EmptyMap == << >>

NoOp ==
    [name |-> "none", key |-> 0, val |-> 0, nil |-> FALSE, d |-> << >>, keys |-> << >>,
     f |-> "none", pre |-> << >>, n |-> 0, on |-> "store"]

\* The functions the callers pass to ForEach: one that only looks at the pair it
\* is given, and one that calls Remove(key) on the Store it traverses.
Callbacks == {"look", "remove"}
\* The arguments the callers pass to GetRandomSamples.
SampleSizes == {-1, 0, 1, 3}
\* Locals of the running method. For the range loops: todo are the keys still to
\* come, seen the keys the loop has produced, last the map as the loop saw it at
\* its previous turn, n what is left of GetRandomSamples' count, called the
\* pairs ForEach has passed to f so far.
NoLoc ==
    [todo |-> {}, keys |-> << >>, val |-> ZeroVal, exist |-> FALSE, timer |-> 0, cpy |-> << >>,
     seen |-> {}, last |-> << >>, n |-> 0, called |-> << >>]
NoRequirements == [DefaultTimeout |-> 0, timeoutInUse |-> FALSE]
NoRecv == [data |-> 0, Requirements |-> NoRequirements]
\* No other Cache: the program has the one Store.
\* The variant with a counter: New() makes an empty map, an unlocked mutex and
\* the counter 0.
NewCounterCache == [data |-> EmptyMap, mx |-> 0, counter |-> 0]
\* The variant with a manager: New() makes an empty map, the counter 0 and the
\* unbuffered channels, and starts cacheManager, which waits at its select.
\* (before is bookkeeping for the properties: data as it was when the manager
\* received the request it handled last.)
NewChanCache ==
    [data |-> EmptyMap, counter |-> 0, at |-> "select",
     req |-> [from |-> 0, chan |-> "none", d |-> << >>, keys |-> << >>, nil |-> FALSE,
              key |-> 0],
     resp |-> [to |-> 0, chan |-> "none", val |-> << >>],
     before |-> EmptyMap]
NoStore == [Requirements |-> NoRequirements, data |-> 0, mx |-> 0]

\* The bulk inputs the callers pass: a nil map or slice, an empty one, and some
\* with one and two keys.
BulkMaps ==
    {[nil |-> TRUE, d |-> << >>]} \cup
    {[nil |-> FALSE, d |-> m] : m \in {<< >>, (1 :> 2), (1 :> 1) @@ (2 :> 2)}}
BulkKeys ==
    {[nil |-> TRUE, keys |-> << >>]} \cup
    {[nil |-> FALSE, keys |-> s] : s \in {<< >>, <<1>>, <<2, 1>>}}

\* An entry that forgets its value: what add would store if it left Val at the
\* zero value.
entryZero(val, t) == [Val |-> ZeroVal, timer |-> t]

\* entry{Val: val, timer: t}; t = 0 is the nil timer. TimeAdded, TimeoutDuration
\* and lastReset hold wall-clock values and are left out.
entry(val, t) == [Val |-> val, timer |-> t]

\* A store that keeps what is already under key: what c.data[key] = e would be
\* if it did not replace an existing entry.
putIfAbsent(m, key, e) ==
    [k \in (DOMAIN m) \cup {key} |-> IF k \in DOMAIN m THEN m[k] ELSE e]

\* c.data[key] = e
put(m, key, e) == [k \in (DOMAIN m) \cup {key} |-> IF k = key THEN e ELSE m[k]]

\* A delete that takes some other key out when key is absent: what remove would
\* be if removing an absent key were not a no-op.
removeSome(m, key) ==
    IF key \in DOMAIN m \/ DOMAIN m = {}
    THEN [k \in (DOMAIN m) \ {key} |-> m[k]]
    ELSE [k \in (DOMAIN m) \ {CHOOSE x \in DOMAIN m : TRUE} |-> m[k]]

\* delete(c.data, key)
remove(m, key) == [k \in (DOMAIN m) \ {key} |-> m[k]]

\* A read that reports every key as found: the zero value with exist = true for
\* an absent key.
lookupFound(m, key) ==
    IF key \in DOMAIN m THEN [Val |-> m[key].Val, exist |-> TRUE]
    ELSE [Val |-> ZeroVal, exist |-> TRUE]

\* c.data[key] as the two-value read: (entry, exist)
lookup(m, key) ==
    IF key \in DOMAIN m THEN [Val |-> m[key].Val, exist |-> TRUE]
    ELSE [Val |-> ZeroVal, exist |-> FALSE]

\* copyValues: the loop over c.data that fills cpy, one key at a time.
\* A copy that keeps the keys and forgets the values: what copyValues would
\* return if it stored the zero value instead of entry.Val.
copyKeysOnly(m) == [k \in DOMAIN m |-> ZeroVal]

RECURSIVE copyLoop(_, _, _)
copyLoop(m, todo, cpy) ==
    IF todo = {} THEN cpy
    ELSE LET k == CHOOSE x \in todo : TRUE
         IN copyLoop(m, todo \ {k}, put(cpy, k, m[k].Val))

copyValues(m) == copyLoop(m, DOMAIN m, EmptyMap)

\* Requirements that always arm timers: what makeRequirementsSensible would be
\* if it did not look at DefaultTimeout.
alwaysInUse(r) == [r EXCEPT !.timeoutInUse = TRUE]

\* makeRequirementsSensible: DefaultTimeout.String() != "0s" is DefaultTimeout != 0.
makeRequirementsSensible(r) == [r EXCEPT !.timeoutInUse = (r.DefaultTimeout # 0)]

\* The entries of the caller's Store: the map object its data field refers to.
Entries == maps[data]
Present(k) == k \in DOMAIN Entries

----------------------------------------------------------------------------
\* New(r): an empty map, an unlocked mutex, the Requirements made sensible.
\* (r = nil is the default Requirements{}, whose DefaultTimeout is 0.)
Init ==
    /\ \E t \in Timeouts :
         Requirements = makeRequirementsSensible([DefaultTimeout |-> t, timeoutInUse |-> FALSE])
    /\ target = NoStore
    /\ data = 1
    /\ mx = 0
    /\ maps = << EmptyMap >>
    /\ timers = << >>
    /\ pc = [p \in Procs |-> "idle"]
    /\ op = [p \in Procs |-> NoOp]
    /\ recv = [p \in Procs |-> NoRecv]
    /\ loc = [p \in Procs |-> NoLoc]
    /\ calls = 0
    /\ nilHandle = "none"
    /\ counterCache = NewCounterCache
    /\ chanCache = NewChanCache

----------------------------------------------------------------------------
\* Calls

\* The entries the running calls have still to add, and whether n more fit the
\* bound on timers (only a Store with a timeout arms timers).
pendingAdds(p) ==
    IF pc[p] = "add" THEN 1 ELSE IF pc[p] = "addbulk" THEN Cardinality(loc[p].todo) ELSE 0

RECURSIVE sumPending(_)
sumPending(ps) ==
    IF ps = {} THEN 0
    ELSE LET p == CHOOSE x \in ps : TRUE IN pendingAdds(p) + sumPending(ps \ {p})

TimersFit(n) ==
    Requirements.timeoutInUse => Len(timers) + sumPending(Procs) + n <= MaxTimers

\* A call of a method with a value receiver, func (c Cache) M(...): the Cache is
\* copied (the map reference and the mutex in its current state), and the
\* method's first statement locks the copy's mutex. When the copy was made of a
\* locked mutex that Lock (or RLock) never returns.
Enter(p, o, first) ==
    /\ pc[p] = "idle"
    /\ calls < MaxCalls
    /\ calls' = calls + 1
    /\ op' = [op EXCEPT ![p] = o]
    /\ recv' = [recv EXCEPT ![p] = [data |-> data, Requirements |-> Requirements]]
    /\ pc' = [pc EXCEPT ![p] = IF mx # 0 THEN "blocked" ELSE first]

\* A call that locks before it looks at its argument: it waits for the mutex of
\* its receiver copy even when there is nothing to do.
EnterWaits(p) ==
    /\ pc[p] = "idle"
    /\ calls < MaxCalls
    /\ calls' = calls + 1
    /\ pc' = [pc EXCEPT ![p] = "blocked"]
    /\ UNCHANGED <<recv, op>>

\* A call that returns before it touches the receiver (a nil or empty argument).
EnterNoop(p) ==
    /\ pc[p] = "idle"
    /\ calls < MaxCalls
    /\ calls' = calls + 1
    /\ UNCHANGED <<recv, pc, op>>

\* A call of a method with a pointer receiver, func (c *Cache) M(): c.mx.Lock()
\* on the Store's own mutex, which waits until it is free.
EnterLocked(p, o, first) ==
    /\ pc[p] = "idle"
    /\ calls < MaxCalls
    /\ mx = 0
    /\ mx' = p
    /\ calls' = calls + 1
    /\ op' = [op EXCEPT ![p] = o]
    /\ pc' = [pc EXCEPT ![p] = first]

\* The method returns: the deferred Unlock of the receiver copy's mutex, which
\* nothing else refers to, and the return. The goroutine keeps nothing of the
\* call.
Return(p) ==
    /\ pc' = [pc EXCEPT ![p] = "idle"]
    /\ op' = [op EXCEPT ![p] = NoOp]
    /\ recv' = [recv EXCEPT ![p] = NoRecv]
    /\ loc' = [loc EXCEPT ![p] = NoLoc]

----------------------------------------------------------------------------
\* Cache.add and Cache.remove on the map object m of the receiver

\* The timer time.AfterFunc makes in add: its function calls c.Remove(key), c
\* being the receiver copy of the running Add or AddBulk: the closure holds the
\* key, that copy's map reference and that copy's mutex, which p holds locked
\* until it returns. again says that the timer was reset while its function was
\* running, so that the function runs once more. Five fields are bookkeeping for
\* the properties: left says how the entry the timer was armed for left its map
\* (overwritten or removed while the timer was pending, or expired by the timer
\* itself), orphan that a Reset() has replaced the map since it was armed,
\* restarted that the timer was reset before it had fired, revived that it was
\* reset when it was no longer pending and its entry had been removed, cache
\* which of the program's two Caches the add was called on (for the contents
\* the two Caches start with, p is 0 and the Store's map is the first).
newTimer(p, key, m) ==
    [key |-> key, data |-> m, owner |-> p, state |-> "armed", handle |-> FALSE,
     again |-> FALSE, left |-> "no", orphan |-> FALSE, restarted |-> FALSE,
     revived |-> FALSE,
     cache |-> IF p \in Procs THEN op[p].on ELSE IF m = 1 THEN "store" ELSE "target"]

\* A timer that can still run its function: armed, or fired with the callback
\* on its way to c.remove.
Pending(tm) == tm.state \in {"armed", "running"}

\* Records on the pending timer of the entry under key (if any) how that entry
\* left m.
leave(ts, m, key, how) ==
    IF key \in DOMAIN maps[m] /\ maps[m][key].timer # 0 /\ Pending(ts[maps[m][key].timer])
    THEN [ts EXCEPT ![maps[m][key].timer].left = how]
    ELSE ts

\* c.add(key, val): a new entry, with a timer when timeoutInUse, stored under
\* key over whatever is there. The timer of an entry it replaces is left alone.
add(p, key, val) ==
    LET m == recv[p].data
        t == IF recv[p].Requirements.timeoutInUse THEN Len(timers) + 1 ELSE 0
        ts == leave(timers, m, key, "overwritten")
    IN /\ maps' = [maps EXCEPT ![m] = put(@, key, entry(val, t))]
       /\ timers' = IF t # 0 THEN Append(ts, newTimer(p, key, m)) ELSE ts

\* c.remove(key) on map object m: delete(c.data, key). The timer of the entry
\* is left alone.
removeFrom(m, key, how) ==
    /\ maps' = [maps EXCEPT ![m] = remove(@, key)]
    /\ timers' = leave(timers, m, key, how)

\* A reset that does nothing: the Store keeps its map and everything in it.
resetKeep ==
    /\ maps' = maps
    /\ data' = data

\* A reset that takes one key out of the map object in place: a drain that
\* empties the map key by key, seen after its first turn.
resetDropOne ==
    /\ maps' = [maps EXCEPT ![data] =
                  IF DOMAIN @ = {} THEN @
                  ELSE LET k == CHOOSE x \in DOMAIN @ : TRUE
                       IN [j \in (DOMAIN @) \ {k} |-> @[j]]]
    /\ data' = data

\* A reset that empties the map object in place instead of allocating a new
\* one: every holder of the old map then sees, and acts on, the Store's map.
resetInPlace ==
    /\ maps' = [maps EXCEPT ![data] = EmptyMap]
    /\ data' = data

\* c.reset(): c.data = make(map...), a new empty map object.
reset ==
    /\ maps' = Append(maps, EmptyMap)
    /\ data' = Len(maps) + 1

\* The receiver copy of p's Add or AddBulk is unlocked: the timers p armed in
\* this call see an unlocked mutex from now on.
unlockTimers(p, handle) ==
    [t \in DOMAIN timers |->
        IF timers[t].owner = p
        THEN [timers[t] EXCEPT !.owner = 0, !.handle = handle]
        ELSE timers[t]]

----------------------------------------------------------------------------
\* Add(key, val)

CallAdd(p, k, v) ==
    /\ TimersFit(1)
    /\ Enter(p, [NoOp EXCEPT !.name = "Add", !.key = k, !.val = v], "add")
    /\ UNCHANGED <<counterCache, chanCache, Requirements, target, nilHandle, data, mx, maps, timers, loc>>

\* return c.add(key, val); the handle it yields is kept in loc until the return.
AddStep(p) ==
    /\ pc[p] = "add"
    /\ add(p, op[p].key, op[p].val)
    /\ pc' = [pc EXCEPT ![p] = "addret"]
    /\ loc' = [loc EXCEPT ![p].val = op[p].val,
                          ![p].timer = IF recv[p].Requirements.timeoutInUse
                                       THEN Len(timers) + 1 ELSE 0]
    /\ UNCHANGED <<counterCache, chanCache, Requirements, target, nilHandle, data, mx, op, recv, calls>>

\* What Add returns: &e, the Entry with the value and the timer of the new entry.
AddResult(p) == entry(loc[p].val, loc[p].timer)

\* TimerExist() on an Entry: e.timer != nil
TimerExist(e) == e.timer # 0

\* The deferred c.mx.Unlock() and the return: the caller now holds the handle.
AddReturn(p) ==
    /\ pc[p] = "addret"
    /\ timers' = unlockTimers(p, TRUE)
    /\ nilHandle' = IF TimerExist(AddResult(p)) THEN nilHandle ELSE "held"
    /\ Return(p)
    /\ UNCHANGED <<counterCache, chanCache, Requirements, target, data, mx, maps, calls>>

\* AddBulk(d)
CallAddBulk(p, b) ==
    /\ IF b.nil
       THEN /\ EnterNoop(p)
            /\ UNCHANGED loc
       ELSE /\ TimersFit(Cardinality(DOMAIN b.d))
            /\ Enter(p, [NoOp EXCEPT !.name = "AddBulk", !.d = b.d], "addbulk")
            /\ loc' = [loc EXCEPT ![p].todo = DOMAIN b.d]
    /\ UNCHANGED <<counterCache, chanCache, Requirements, target, nilHandle, data, mx, maps, timers>>

\* One turn of "for k, v := range d { c.add(k, v) }".
AddBulkStep(p) ==
    /\ pc[p] = "addbulk"
    /\ \E k \in loc[p].todo :
         /\ add(p, k, op[p].d[k])
         /\ loc' = [loc EXCEPT ![p].todo = @ \ {k}]
    /\ UNCHANGED <<counterCache, chanCache, Requirements, target, nilHandle, data, mx, pc, op, recv, calls>>

AddBulkReturn(p) ==
    /\ pc[p] = "addbulk"
    /\ loc[p].todo = {}
    /\ timers' = unlockTimers(p, FALSE)
    /\ Return(p)
    /\ UNCHANGED <<counterCache, chanCache, Requirements, target, nilHandle, data, mx, maps, calls>>

----------------------------------------------------------------------------
\* Remove(key)

CallRemove(p, k) ==
    /\ Enter(p, [NoOp EXCEPT !.name = "Remove", !.key = k], "remove")
    /\ UNCHANGED <<counterCache, chanCache, Requirements, target, nilHandle, data, mx, maps, timers, loc>>

RemoveStep(p) ==
    /\ pc[p] = "remove"
    /\ removeFrom(recv[p].data, op[p].key, "removed")
    /\ Return(p)
    /\ UNCHANGED <<counterCache, chanCache, Requirements, target, nilHandle, data, mx, calls>>

\* RemoveBulk(keys)
CallRemoveBulk(p, b) ==
    /\ IF b.nil \/ Len(b.keys) < 1
       THEN /\ EnterNoop(p)
            /\ UNCHANGED loc
       ELSE /\ Enter(p, [NoOp EXCEPT !.name = "RemoveBulk", !.keys = b.keys], "removebulk")
            /\ loc' = [loc EXCEPT ![p].keys = b.keys]
    /\ UNCHANGED <<counterCache, chanCache, Requirements, target, nilHandle, data, mx, maps, timers>>

\* One turn of "for _, key := range keys { c.remove(key) }"; after the last one
\* the method returns.
RemoveBulkStep(p) ==
    /\ pc[p] = "removebulk"
    /\ removeFrom(recv[p].data, Head(loc[p].keys), "removed")
    /\ IF Len(loc[p].keys) = 1
       THEN Return(p)
       ELSE /\ loc' = [loc EXCEPT ![p].keys = Tail(@)]
            /\ UNCHANGED <<pc, op, recv>>
    /\ UNCHANGED <<counterCache, chanCache, Requirements, target, nilHandle, data, mx, calls>>

----------------------------------------------------------------------------
\* GetAndRemove(key)

CallGetAndRemove(p, k) ==
    /\ Enter(p, [NoOp EXCEPT !.name = "GetAndRemove", !.key = k], "gar_read")
    /\ UNCHANGED <<counterCache, chanCache, Requirements, target, nilHandle, data, mx, maps, timers, loc>>

\* e, exist := c.data[key]
GetAndRemoveRead(p) ==
    /\ pc[p] = "gar_read"
    /\ LET r == lookup(maps[recv[p].data], op[p].key)
       IN loc' = [loc EXCEPT ![p].val = r.Val, ![p].exist = r.exist]
    /\ pc' = [pc EXCEPT ![p] = "gar_remove"]
    /\ UNCHANGED <<counterCache, chanCache, Requirements, target, nilHandle, data, mx, maps, timers, op, recv, calls>>

\* What GetAndRemove returns: e.Val, exist
GetAndRemoveResult(p) == [Val |-> loc[p].val, exist |-> loc[p].exist]

\* c.remove(key); return e.Val, exist
GetAndRemoveDelete(p) ==
    /\ pc[p] = "gar_remove"
    /\ removeFrom(recv[p].data, op[p].key, "removed")
    /\ Return(p)
    /\ UNCHANGED <<counterCache, chanCache, Requirements, target, nilHandle, data, mx, calls>>

----------------------------------------------------------------------------
\* GetAllAndRemove(), a pointer receiver: it locks the Store's own mutex.

GetAllAndRemoveLock(p) ==
    /\ EnterLocked(p, [NoOp EXCEPT !.name = "GetAllAndRemove"], "gaar_copy")
    /\ UNCHANGED <<counterCache, chanCache, Requirements, target, nilHandle, data, maps, timers, recv, loc>>

\* cpy := c.copyValues()
GetAllAndRemoveCopy(p) ==
    /\ pc[p] = "gaar_copy"
    /\ loc' = [loc EXCEPT ![p].cpy = copyValues(maps[data])]
    /\ pc' = [pc EXCEPT ![p] = "gaar_reset"]
    /\ UNCHANGED <<counterCache, chanCache, Requirements, target, nilHandle, data, mx, maps, timers, op, recv, calls>>

\* What GetAllAndRemove returns: cpy
GetAllAndRemoveResult(p) == loc[p].cpy

\* c.reset(); return cpy (and the deferred Unlock)
GetAllAndRemoveReset(p) ==
    /\ pc[p] = "gaar_reset"
    /\ reset
    /\ mx' = 0
    /\ Return(p)
    /\ UNCHANGED <<counterCache, chanCache, Requirements, target, nilHandle, timers, calls>>

\* Reset(), a pointer receiver.
ResetLock(p) ==
    /\ EnterLocked(p, [NoOp EXCEPT !.name = "Reset"], "reset")
    /\ UNCHANGED <<counterCache, chanCache, Requirements, target, nilHandle, data, maps, timers, recv, loc>>

ResetStep(p) ==
    /\ pc[p] = "reset"
    /\ reset
    /\ mx' = 0
    /\ timers' = [t \in DOMAIN timers |->
                    IF Pending(timers[t]) THEN [timers[t] EXCEPT !.orphan = TRUE] ELSE timers[t]]
    /\ Return(p)
    /\ UNCHANGED <<counterCache, chanCache, Requirements, target, nilHandle, calls>>

----------------------------------------------------------------------------
\* The read methods: value receivers, so RLock (Count: Lock) on the copy's mutex.
\* Each reads the map object of its receiver copy once and returns.

CallGet(p, k) ==
    /\ Enter(p, [NoOp EXCEPT !.name = "Get", !.key = k], "get")
    /\ UNCHANGED <<counterCache, chanCache, Requirements, target, nilHandle, data, mx, maps, timers, loc>>

\* entry, exist := c.data[key]; return entry.Val, exist
GetResult(p) == lookup(maps[recv[p].data], op[p].key)

GetStep(p) ==
    /\ pc[p] = "get"
    /\ Return(p)
    /\ UNCHANGED <<counterCache, chanCache, Requirements, target, nilHandle, data, mx, maps, timers, calls>>

CallExist(p, k) ==
    /\ Enter(p, [NoOp EXCEPT !.name = "Exist", !.key = k], "exist")
    /\ UNCHANGED <<counterCache, chanCache, Requirements, target, nilHandle, data, mx, maps, timers, loc>>

\* _, exist := c.data[key]; return exist
ExistResult(p) == lookup(maps[recv[p].data], op[p].key).exist

ExistStep(p) ==
    /\ pc[p] = "exist"
    /\ Return(p)
    /\ UNCHANGED <<counterCache, chanCache, Requirements, target, nilHandle, data, mx, maps, timers, calls>>

CallGetAll(p) ==
    /\ Enter(p, [NoOp EXCEPT !.name = "GetAll"], "getall")
    /\ UNCHANGED <<counterCache, chanCache, Requirements, target, nilHandle, data, mx, maps, timers, loc>>

\* return c.copyValues()
GetAllResult(p) == copyValues(maps[recv[p].data])

GetAllStep(p) ==
    /\ pc[p] = "getall"
    /\ Return(p)
    /\ UNCHANGED <<counterCache, chanCache, Requirements, target, nilHandle, data, mx, maps, timers, calls>>

\* results[k] = c.data[k].Val for every k of d: a key that is absent gets the
\* zero value.
RECURSIVE getBulkLoop(_, _, _)
getBulkLoop(m, d, results) ==
    IF d = << >> THEN results
    ELSE getBulkLoop(m, Tail(d), put(results, Head(d), lookup(m, Head(d)).Val))

CallGetBulk(p, b) ==
    /\ Enter(p, [NoOp EXCEPT !.name = "GetBulk", !.nil = b.nil, !.keys = b.keys], "getbulk")
    /\ UNCHANGED <<counterCache, chanCache, Requirements, target, nilHandle, data, mx, maps, timers, loc>>

GetBulkResult(p) == getBulkLoop(maps[recv[p].data], op[p].keys, EmptyMap)

GetBulkStep(p) ==
    /\ pc[p] = "getbulk"
    /\ Return(p)
    /\ UNCHANGED <<counterCache, chanCache, Requirements, target, nilHandle, data, mx, maps, timers, calls>>

CallCount(p) ==
    /\ Enter(p, [NoOp EXCEPT !.name = "Count"], "count")
    /\ UNCHANGED <<counterCache, chanCache, Requirements, target, nilHandle, data, mx, maps, timers, loc>>

\* return len(c.data)
CountResult(p) == Cardinality(DOMAIN maps[recv[p].data])

CountStep(p) ==
    /\ pc[p] = "count"
    /\ Return(p)
    /\ UNCHANGED <<counterCache, chanCache, Requirements, target, nilHandle, data, mx, maps, timers, calls>>

----------------------------------------------------------------------------
\* GetRandomSamples(n): a value receiver and no lock at all: the loop ranges
\* over the map object of the receiver copy while the other goroutines go on.

CallGetRandomSamples(p, n) ==
    /\ pc[p] = "idle"
    /\ calls < MaxCalls
    /\ calls' = calls + 1
    /\ op' = [op EXCEPT ![p] = [NoOp EXCEPT !.name = "GetRandomSamples", !.n = n]]
    /\ recv' = [recv EXCEPT ![p] = [data |-> data, Requirements |-> Requirements]]
    /\ loc' = [loc EXCEPT ![p].n = n, ![p].last = maps[data]]
    /\ pc' = [pc EXCEPT ![p] = "samples"]
    /\ UNCHANGED <<counterCache, chanCache, Requirements, target, nilHandle, data, mx, maps, timers>>

\* A sampling that takes every key but an arbitrary one: the loop leaves one
\* turn early.
sampleButOne(m, seen, n) ==
    IF Cardinality(DOMAIN m \ seen) >= 2 /\ n >= 1 THEN DOMAIN m \ seen ELSE {}

\* The keys the range loop can produce at its next turn: a key of the map as it
\* is now that the loop has not produced, as long as n >= 1 (else it breaks).
sample(m, seen, n) ==
    IF n >= 1 THEN DOMAIN m \ seen ELSE {}

\* One turn of "for key, entry := range c.data": results[key] = entry.Val; n--.
\* When the map was written since the previous turn the loop has raced with the
\* writer: the runtime may stop the program at this turn ("fatal error:
\* concurrent map iteration and map write"), or the loop goes on over the map
\* as it is now.
GetRandomSamplesStep(p) ==
    /\ pc[p] = "samples"
    /\ LET m == maps[recv[p].data]
       IN \/ /\ m # loc[p].last
             /\ pc' = [pc EXCEPT ![p] = "fatal"]
             /\ loc' = loc
          \/ \E k \in sample(m, loc[p].seen, loc[p].n) :
                /\ loc' = [loc EXCEPT ![p].cpy = put(@, k, m[k].Val),
                                      ![p].seen = @ \cup {k},
                                      ![p].n = @ - 1,
                                      ![p].last = m]
                /\ pc' = pc
    /\ UNCHANGED <<counterCache, chanCache, Requirements, target, nilHandle, data, mx, maps, timers, op, recv, calls>>

\* return results
GetRandomSamplesResult(p) == loc[p].cpy

GetRandomSamplesReturn(p) ==
    /\ pc[p] = "samples"
    /\ sample(maps[recv[p].data], loc[p].seen, loc[p].n) = {}
    /\ Return(p)
    /\ UNCHANGED <<counterCache, chanCache, Requirements, target, nilHandle, data, mx, maps, timers, calls>>

----------------------------------------------------------------------------
\* ForEach(f): d := c.GetAll(), then f(k, v) for every pair of d. ForEach takes
\* no lock itself; GetAll runs on a copy of ForEach's receiver copy and RLocks
\* that copy's mutex, which blocks for ever when the Store was locked at the
\* moment ForEach was called.

CallForEach(p, f) ==
    /\ Enter(p, [NoOp EXCEPT !.name = "ForEach", !.f = f], "foreach_getall")
    /\ UNCHANGED <<counterCache, chanCache, Requirements, target, nilHandle, data, mx, maps, timers, loc>>

\* d := c.GetAll()
ForEachGetAll(p) ==
    /\ pc[p] = "foreach_getall"
    /\ LET d == copyValues(maps[recv[p].data])
       IN loc' = [loc EXCEPT ![p].cpy = d, ![p].todo = DOMAIN d]
    /\ pc' = [pc EXCEPT ![p] = "foreach"]
    /\ UNCHANGED <<counterCache, chanCache, Requirements, target, nilHandle, data, mx, maps, timers, op, recv, calls>>

\* A call of f that passes the key in the place of the value.
visitKey(called, k, v) == Append(called, <<k, k>>)

\* f(k, v): the pair joins the calls of f made so far.
visit(called, k, v) == Append(called, <<k, v>>)

\* One turn of "for k, v := range d { f(k, v) }". The function that calls
\* Remove(k) on the Store makes a call with a value receiver from inside the
\* traversal: the Store is copied as it is now, and the call deletes k unless
\* the copy was made of a locked mutex, in which case it never returns.
ForEachStep(p) ==
    /\ pc[p] = "foreach"
    /\ \E k \in loc[p].todo :
         IF op[p].f = "remove" /\ mx # 0
         THEN /\ pc' = [pc EXCEPT ![p] = "blocked"]
              /\ UNCHANGED <<maps, timers, loc>>
         ELSE /\ IF op[p].f = "remove"
                 THEN removeFrom(data, k, "removed")
                 ELSE UNCHANGED <<maps, timers>>
              /\ loc' = [loc EXCEPT ![p].todo = @ \ {k},
                                    ![p].called = visit(@, k, loc[p].cpy[k])]
              /\ pc' = pc
    /\ UNCHANGED <<counterCache, chanCache, Requirements, target, nilHandle, data, mx, op, recv, calls>>

ForEachReturn(p) ==
    /\ pc[p] = "foreach"
    /\ loc[p].todo = {}
    /\ Return(p)
    /\ UNCHANGED <<counterCache, chanCache, Requirements, target, nilHandle, data, mx, maps, timers, calls>>

----------------------------------------------------------------------------
\* Timers

TimerIds == DOMAIN timers

\* The entry timer t was armed for is still the one stored under its key.
StoredFor(t) ==
    /\ timers[t].data = data
    /\ timers[t].key \in DOMAIN Entries
    /\ Entries[timers[t].key].timer = t

\* The timer fires: its goroutine calls c.Remove(key) on the receiver copy the
\* closure holds. Remove has a value receiver, so that copy is copied again, its
\* mutex in the state it has now: locked while the Add or AddBulk that armed the
\* timer has not returned, and then Remove's c.mx.Lock() never returns.
Fire(t) ==
    /\ timers[t].state = "armed"
    /\ timers' = [timers EXCEPT ![t].state = IF timers[t].owner # 0 THEN "stuck" ELSE "running"]
    /\ UNCHANGED <<counterCache, chanCache, Requirements, target, nilHandle, data, mx, maps, pc, op, recv, loc, calls>>

\* The callback's c.remove(key) on the map object of the copy it runs on.
Expire(t) ==
    /\ timers[t].state = "running"
    /\ maps' = [maps EXCEPT ![timers[t].data] = remove(@, timers[t].key)]
    /\ timers' = [timers EXCEPT ![t].state = IF timers[t].again THEN "armed" ELSE "done",
                                ![t].again = FALSE,
                                ![t].left = IF StoredFor(t) THEN "expired" ELSE @]
    /\ UNCHANGED <<counterCache, chanCache, Requirements, target, nilHandle, data, mx, pc, op, recv, loc, calls>>

\* The Entries the callers hold, each named by its timer: the timers of the
\* returned Adds, and 0 for the Entry of an Add that armed no timer (e.timer is
\* nil).
Handles == {t \in TimerIds : timers[t].handle} \cup (IF nilHandle # "none" THEN {0} ELSE {})

\* timer.Stop(): a timer that has not fired does not fire, and one that was
\* reset while its function runs does not run it again.
timerStop(tm) ==
    [tm EXCEPT !.state = IF @ = "armed" THEN "stopped" ELSE @, !.again = FALSE]

\* timer.Reset(d): the timer is pending again whatever it was: one that has not
\* fired starts its countdown anew, a stopped or an expired one is armed again,
\* and one whose function is running runs it once more.
timerReset(tm) ==
    IF tm.state = "running" THEN [tm EXCEPT !.again = TRUE]
    ELSE [tm EXCEPT !.state = "armed"]

\* A resetTimeout without the nil test: for an Entry without a timer it makes a
\* timer for the key in the Store's map.
resetTimeoutArms(ts, h, key) ==
    IF h = 0 THEN Append(ts, newTimer(0, key, data))
    ELSE [ts EXCEPT ![h] = timerReset(@)]

\* e.resetTimeout(): nothing when e.timer is nil, else e.timer.Reset. (key is
\* the key the Entry was added under; resetTimeout makes no use of it.)
resetTimeout(ts, h, key) ==
    IF h = 0 THEN ts ELSE [ts EXCEPT ![h] = timerReset(@)]

\* StopTimer() on an Entry a returned Add gave its caller: nothing when e.timer
\* is nil, else e.timer.Stop(), which keeps a timer that has not fired from
\* firing and changes nothing otherwise.
StopTimer(t) ==
    /\ t \in Handles
    /\ timers' = IF t = 0 THEN timers ELSE [timers EXCEPT ![t] = timerStop(@)]
    /\ nilHandle' = IF t = 0 THEN "stopped" ELSE nilHandle
    /\ UNCHANGED <<counterCache, chanCache, Requirements, target, data, mx, maps, pc, op, recv, loc, calls>>

\* ResetTimer() on an Entry a caller holds: e.resetTimeout() under the Entry's
\* own lock.
ResetTimer(h) ==
    /\ h \in Handles
    /\ calls < MaxCalls
    /\ calls' = calls + 1
    /\ \E k \in Keys :
         /\ h # 0 => k = timers[h].key
         /\ LET ts == resetTimeout(timers, h, k)
            IN timers' =
                 IF h = 0 THEN ts
                 ELSE [ts EXCEPT ![h].restarted = @ \/ timers[h].state = "armed",
                                 ![h].revived =
                                    @ \/ (/\ ~Pending(timers[h])
                                          /\ timers[h].left \in {"expired", "removed"})]
    /\ nilHandle' = IF h = 0 THEN "reset" ELSE nilHandle
    /\ UNCHANGED <<counterCache, chanCache, Requirements, target, data, mx, maps, pc, op, recv, loc>>

\* SetTimer(duration) on an Entry a caller holds: e.TimeoutDuration = duration.
\* It reaches no timer; the duration is the one a later reset counts down.
SetTimer(h) ==
    /\ h \in Handles
    /\ calls < MaxCalls
    /\ calls' = calls + 1
    /\ UNCHANGED <<counterCache, chanCache, Requirements, target, nilHandle, data, mx, maps, timers, pc, op, recv, loc>>

\* SetAndResetTimer(duration): the new duration and e.resetTimeout().
SetAndResetTimer(h) == ResetTimer(h)

----------------------------------------------------------------------------
Next ==
    \/ \E p \in Procs, k \in Keys, v \in Vals : CallAdd(p, k, v)
    \/ \E p \in Procs : AddStep(p)
    \/ \E p \in Procs : AddReturn(p)
    \/ \E p \in Procs, b \in BulkMaps : CallAddBulk(p, b)
    \/ \E p \in Procs : AddBulkStep(p)
    \/ \E p \in Procs : AddBulkReturn(p)
    \/ \E p \in Procs, k \in Keys : CallRemove(p, k)
    \/ \E p \in Procs : RemoveStep(p)
    \/ \E p \in Procs, b \in BulkKeys : CallRemoveBulk(p, b)
    \/ \E p \in Procs : RemoveBulkStep(p)
    \/ \E p \in Procs, k \in Keys : CallGetAndRemove(p, k)
    \/ \E p \in Procs : GetAndRemoveRead(p)
    \/ \E p \in Procs : GetAndRemoveDelete(p)
    \/ \E p \in Procs : GetAllAndRemoveLock(p)
    \/ \E p \in Procs : GetAllAndRemoveCopy(p)
    \/ \E p \in Procs : GetAllAndRemoveReset(p)
    \/ \E p \in Procs : ResetLock(p)
    \/ \E p \in Procs : ResetStep(p)
    \/ \E p \in Procs, k \in Keys : CallGet(p, k)
    \/ \E p \in Procs : GetStep(p)
    \/ \E p \in Procs, k \in Keys : CallExist(p, k)
    \/ \E p \in Procs : ExistStep(p)
    \/ \E p \in Procs : CallGetAll(p)
    \/ \E p \in Procs : GetAllStep(p)
    \/ \E p \in Procs, b \in BulkKeys : CallGetBulk(p, b)
    \/ \E p \in Procs : GetBulkStep(p)
    \/ \E p \in Procs : CallCount(p)
    \/ \E p \in Procs : CountStep(p)
    \/ \E p \in Procs, n \in SampleSizes : CallGetRandomSamples(p, n)
    \/ \E p \in Procs : GetRandomSamplesStep(p)
    \/ \E p \in Procs : GetRandomSamplesReturn(p)
    \/ \E p \in Procs, f \in Callbacks : CallForEach(p, f)
    \/ \E p \in Procs : ForEachGetAll(p)
    \/ \E p \in Procs : ForEachStep(p)
    \/ \E p \in Procs : ForEachReturn(p)
    \/ \E t \in TimerIds : Fire(t)
    \/ \E t \in TimerIds : Expire(t)
    \/ \E h \in Handles : StopTimer(h)
    \/ \E h \in Handles : ResetTimer(h)
    \/ \E h \in Handles : SetTimer(h)
    \/ \E h \in Handles : SetAndResetTimer(h)

Spec == Init /\ [][Next]_vars

\* The callers use the single-key operations, the two methods that replace the
\* map, and the timer handles: the same actions, without the bulk and the read
\* methods.
NextKeyed ==
    \/ \E p \in Procs, k \in Keys, v \in Vals : CallAdd(p, k, v)
    \/ \E p \in Procs : AddStep(p)
    \/ \E p \in Procs : AddReturn(p)
    \/ \E p \in Procs, k \in Keys : CallRemove(p, k)
    \/ \E p \in Procs : RemoveStep(p)
    \/ \E p \in Procs, k \in Keys : CallGetAndRemove(p, k)
    \/ \E p \in Procs : GetAndRemoveRead(p)
    \/ \E p \in Procs : GetAndRemoveDelete(p)
    \/ \E p \in Procs : GetAllAndRemoveLock(p)
    \/ \E p \in Procs : GetAllAndRemoveCopy(p)
    \/ \E p \in Procs : GetAllAndRemoveReset(p)
    \/ \E p \in Procs : ResetLock(p)
    \/ \E p \in Procs : ResetStep(p)
    \/ \E t \in TimerIds : Fire(t)
    \/ \E t \in TimerIds : Expire(t)
    \/ \E t \in TimerIds : StopTimer(t)

SpecKeyed == Init /\ [][NextKeyed]_vars

\* The callers add and remove, one key or many at a time, and read the whole
\* Store; the timers fire. The same actions, without the methods that replace
\* the map.
NextBulk ==
    \/ \E p \in Procs, k \in Keys, v \in Vals : CallAdd(p, k, v)
    \/ \E p \in Procs : AddStep(p)
    \/ \E p \in Procs : AddReturn(p)
    \/ \E p \in Procs, b \in BulkMaps : CallAddBulk(p, b)
    \/ \E p \in Procs : AddBulkStep(p)
    \/ \E p \in Procs : AddBulkReturn(p)
    \/ \E p \in Procs, k \in Keys : CallRemove(p, k)
    \/ \E p \in Procs : RemoveStep(p)
    \/ \E p \in Procs, b \in BulkKeys : CallRemoveBulk(p, b)
    \/ \E p \in Procs : RemoveBulkStep(p)
    \/ \E p \in Procs : CallGetAll(p)
    \/ \E p \in Procs : GetAllStep(p)
    \/ \E t \in TimerIds : Fire(t)
    \/ \E t \in TimerIds : Expire(t)

SpecBulk == Init /\ [][NextBulk]_vars

----------------------------------------------------------------------------
\* Copy, Merge and MergeAndReset: the functions of two Caches. The Store is the
\* source (the argument c of Copy, cache2 of Merge and MergeAndReset); target is
\* the other Cache (cache1 of Merge and MergeAndReset, and the Cache nc that
\* Copy makes and returns). Each ends with AddBulk on the other Cache, which is
\* the loop of AddBulkStep and AddBulkReturn above run on a copy of that Cache.

\* The mappings a Store can hold.
StoreContents == UNION {[S -> Vals] : S \in SUBSET Keys}

RECURSIVE ascending(_)
ascending(S) ==
    IF S = {} THEN << >>
    ELSE LET k == CHOOSE x \in S : \A y \in S : x <= y
         IN <<k>> \o ascending(S \ {k})

\* A Cache with Requirements req and map object id after AddBulk(m) on it has
\* returned: the timers that call armed (none without a timeout), and the map
\* with an entry per pair of m, the timers numbered from base + 1.
armed(m, req, id) ==
    IF req.timeoutInUse
    THEN [i \in 1..Cardinality(DOMAIN m) |-> newTimer(0, ascending(DOMAIN m)[i], id)]
    ELSE << >>

stored(m, req, base) ==
    [k \in DOMAIN m |->
        entry(m[k], IF req.timeoutInUse
                    THEN base + (CHOOSE i \in 1..Cardinality(DOMAIN m) :
                                    ascending(DOMAIN m)[i] = k)
                    ELSE 0)]

\* Two Caches made by New, each with Requirements and contents of its own.
InitMerge ==
    /\ \E ts \in Timeouts, tt \in Timeouts, a \in StoreContents, b \in StoreContents :
         LET r == makeRequirementsSensible([DefaultTimeout |-> ts, timeoutInUse |-> FALSE])
             tr == makeRequirementsSensible([DefaultTimeout |-> tt, timeoutInUse |-> FALSE])
         IN /\ Requirements = r
            /\ target = [Requirements |-> tr, data |-> 2, mx |-> 0]
            /\ timers = armed(b, r, 1) \o armed(a, tr, 2)
            /\ maps = << stored(b, r, 0), stored(a, tr, Len(armed(b, r, 1))) >>
    /\ data = 1
    /\ mx = 0
    /\ pc = [p \in Procs |-> "idle"]
    /\ op = [p \in Procs |-> NoOp]
    /\ recv = [p \in Procs |-> NoRecv]
    /\ loc = [p \in Procs |-> NoLoc]
    /\ calls = 0
    /\ nilHandle = "none"
    /\ counterCache = NewCounterCache
    /\ chanCache = NewChanCache

\* The mappings the two Caches hold when a call is made; kept with the call for
\* the properties.
Pre ==
    [a |-> IF target.data = 0 THEN EmptyMap
           ELSE [k \in DOMAIN maps[target.data] |-> maps[target.data][k].Val],
     b |-> [k \in DOMAIN Entries |-> Entries[k].Val]]

\* The receiver copy of a method called on the other Cache.
targetCopy == [data |-> target.data, Requirements |-> target.Requirements]

\* Merge(cache1, cache2): cache1.AddBulk(cache2.GetAll()). The argument is
\* evaluated first: GetAll, a value receiver, on the Store.
CallMerge(p) ==
    /\ target.data # 0
    /\ Enter(p, [NoOp EXCEPT !.name = "Merge", !.pre = Pre], "merge_getall")
    /\ UNCHANGED <<counterCache, chanCache, Requirements, target, nilHandle, data, mx, maps, timers, loc>>

\* GetAll returns c.copyValues(); AddBulk is called with it on cache1: the map
\* is not nil, the Cache is copied and the copy's mutex locked.
MergeGetAll(p) ==
    /\ pc[p] = "merge_getall"
    /\ LET d == copyValues(maps[recv[p].data])
       IN /\ op' = [op EXCEPT ![p].d = d, ![p].on = "target"]
          /\ loc' = [loc EXCEPT ![p].todo = DOMAIN d]
    /\ recv' = [recv EXCEPT ![p] = targetCopy]
    /\ pc' = [pc EXCEPT ![p] = "addbulk"]
    /\ UNCHANGED <<counterCache, chanCache, Requirements, target, nilHandle, data, mx, maps, timers, calls>>

\* MergeAndReset(cache1, cache2): cache1.AddBulk(cache2.GetAllAndRemove()).
\* GetAllAndRemove has a pointer receiver and locks the Store's own mutex.
CallMergeAndReset(p) ==
    /\ target.data # 0
    /\ EnterLocked(p, [NoOp EXCEPT !.name = "MergeAndReset", !.pre = Pre], "mar_copy")
    /\ UNCHANGED <<counterCache, chanCache, Requirements, target, nilHandle, data, maps, timers, recv, loc>>

\* cpy := c.copyValues()
MergeAndResetCopy(p) ==
    /\ pc[p] = "mar_copy"
    /\ loc' = [loc EXCEPT ![p].cpy = copyValues(maps[data])]
    /\ pc' = [pc EXCEPT ![p] = "mar_reset"]
    /\ UNCHANGED <<counterCache, chanCache, Requirements, target, nilHandle, data, mx, maps, timers, op, recv, calls>>

\* c.reset(); return cpy (and the deferred Unlock); AddBulk is called with cpy
\* on cache1.
MergeAndResetDrain(p) ==
    /\ pc[p] = "mar_reset"
    /\ reset
    /\ mx' = 0
    /\ op' = [op EXCEPT ![p].d = loc[p].cpy, ![p].on = "target"]
    /\ loc' = [loc EXCEPT ![p].todo = DOMAIN loc[p].cpy]
    /\ recv' = [recv EXCEPT ![p] = targetCopy]
    /\ pc' = [pc EXCEPT ![p] = "addbulk"]
    /\ UNCHANGED <<counterCache, chanCache, Requirements, target, nilHandle, timers, calls>>

\* Copy(c): the Store is passed by value, so Copy works on a copy of it.
CallCopy(p) ==
    /\ Enter(p, [NoOp EXCEPT !.name = "Copy", !.pre = Pre], "copy_new")
    /\ UNCHANGED <<counterCache, chanCache, Requirements, target, nilHandle, data, mx, maps, timers, loc>>

\* A copy that shares: the Cache it returns refers to the map object of its
\* argument instead of a map of its own.
CopyShared(p) ==
    /\ pc[p] = "copy_new"
    /\ LET req == makeRequirementsSensible(recv[p].Requirements)
           d == copyValues(maps[recv[p].data])
           nc == [Requirements |-> req, data |-> recv[p].data, mx |-> 0]
       IN /\ maps' = maps
          /\ target' = nc
          /\ recv' = [recv EXCEPT ![p] = [data |-> nc.data, Requirements |-> req]]
          /\ op' = [op EXCEPT ![p].d = d, ![p].on = "target"]
          /\ loc' = [loc EXCEPT ![p].todo = DOMAIN d]
    /\ pc' = [pc EXCEPT ![p] = "addbulk"]
    /\ UNCHANGED <<counterCache, chanCache, Requirements, nilHandle, data, mx, timers, calls>>

\* req := c.Requirements(); nc := New(&req); nc.AddBulk(c.GetAll()): a new Cache
\* with the Requirements of the copy made sensible and a new empty map, and
\* AddBulk called on it with what GetAll returns.
CopyNew(p) ==
    /\ pc[p] = "copy_new"
    /\ LET req == makeRequirementsSensible(recv[p].Requirements)
           d == copyValues(maps[recv[p].data])
           nc == [Requirements |-> req, data |-> Len(maps) + 1, mx |-> 0]
       IN /\ maps' = Append(maps, EmptyMap)
          /\ target' = nc
          /\ recv' = [recv EXCEPT ![p] = [data |-> nc.data, Requirements |-> req]]
          /\ op' = [op EXCEPT ![p].d = d, ![p].on = "target"]
          /\ loc' = [loc EXCEPT ![p].todo = DOMAIN d]
    /\ pc' = [pc EXCEPT ![p] = "addbulk"]
    /\ UNCHANGED <<counterCache, chanCache, Requirements, nilHandle, data, mx, timers, calls>>

\* A program of one goroutine that copies and merges its two Caches; no timer
\* fires meanwhile.
Caller == {CHOOSE p \in Procs : TRUE}

NextMerge ==
    \/ \E p \in Caller : CallMerge(p)
    \/ \E p \in Caller : MergeGetAll(p)
    \/ \E p \in Caller : CallMergeAndReset(p)
    \/ \E p \in Caller : MergeAndResetCopy(p)
    \/ \E p \in Caller : MergeAndResetDrain(p)
    \/ \E p \in Caller : CallCopy(p)
    \/ \E p \in Caller : CopyNew(p)
    \/ \E p \in Caller : AddBulkStep(p)
    \/ \E p \in Caller : AddBulkReturn(p)

SpecMerge == InitMerge /\ [][NextMerge]_vars

\* Goroutines that call MergeAndReset while others read the source with GetAll,
\* Count and Exist.
NextDrain ==
    \/ \E p \in Procs : CallMergeAndReset(p)
    \/ \E p \in Procs : MergeAndResetCopy(p)
    \/ \E p \in Procs : MergeAndResetDrain(p)
    \/ \E p \in Procs : AddBulkStep(p)
    \/ \E p \in Procs : AddBulkReturn(p)
    \/ \E p \in Procs : CallGetAll(p)
    \/ \E p \in Procs : GetAllStep(p)
    \/ \E p \in Procs : CallCount(p)
    \/ \E p \in Procs : CountStep(p)
    \/ \E p \in Procs, k \in Keys : CallExist(p, k)
    \/ \E p \in Procs : ExistStep(p)

SpecDrain == InitMerge /\ [][NextDrain]_vars

\* The callers add and remove single keys and use the Entries their Adds gave
\* them; the timers fire.
NextHandles ==
    \/ \E p \in Procs, k \in Keys, v \in Vals : CallAdd(p, k, v)
    \/ \E p \in Procs : AddStep(p)
    \/ \E p \in Procs : AddReturn(p)
    \/ \E p \in Procs, k \in Keys : CallRemove(p, k)
    \/ \E p \in Procs : RemoveStep(p)
    \/ \E t \in TimerIds : Fire(t)
    \/ \E t \in TimerIds : Expire(t)
    \/ \E h \in Handles : StopTimer(h)
    \/ \E h \in Handles : ResetTimer(h)
    \/ \E h \in Handles : SetTimer(h)
    \/ \E h \in Handles : SetAndResetTimer(h)

SpecHandles == Init /\ [][NextHandles]_vars

\* A program of one goroutine that uses every method with a value receiver, one
\* call after the other; no timer fires meanwhile.
NextSeq ==
    \/ \E p \in Caller, k \in Keys, v \in Vals : CallAdd(p, k, v)
    \/ \E p \in Caller : AddStep(p)
    \/ \E p \in Caller : AddReturn(p)
    \/ \E p \in Caller, b \in BulkMaps : CallAddBulk(p, b)
    \/ \E p \in Caller : AddBulkStep(p)
    \/ \E p \in Caller : AddBulkReturn(p)
    \/ \E p \in Caller, k \in Keys : CallRemove(p, k)
    \/ \E p \in Caller : RemoveStep(p)
    \/ \E p \in Caller, b \in BulkKeys : CallRemoveBulk(p, b)
    \/ \E p \in Caller : RemoveBulkStep(p)
    \/ \E p \in Caller, k \in Keys : CallGetAndRemove(p, k)
    \/ \E p \in Caller : GetAndRemoveRead(p)
    \/ \E p \in Caller : GetAndRemoveDelete(p)
    \/ \E p \in Caller, k \in Keys : CallGet(p, k)
    \/ \E p \in Caller : GetStep(p)
    \/ \E p \in Caller, k \in Keys : CallExist(p, k)
    \/ \E p \in Caller : ExistStep(p)
    \/ \E p \in Caller : CallCount(p)
    \/ \E p \in Caller : CountStep(p)
    \/ \E p \in Caller, n \in SampleSizes : CallGetRandomSamples(p, n)
    \/ \E p \in Caller : GetRandomSamplesStep(p)
    \/ \E p \in Caller : GetRandomSamplesReturn(p)
    \/ \E p \in Caller, f \in Callbacks : CallForEach(p, f)
    \/ \E p \in Caller : ForEachGetAll(p)
    \/ \E p \in Caller : ForEachStep(p)
    \/ \E p \in Caller : ForEachReturn(p)

SpecSeq == Init /\ [][NextSeq]_vars

----------------------------------------------------------------------------
\* Calls on the other Cache (the Cache a Copy returned): the same methods, on a
\* receiver copy of that Cache.

\* A call of a method with a value receiver on the other Cache.
EnterTarget(p, o, first) ==
    /\ target.data # 0
    /\ pc[p] = "idle"
    /\ calls < MaxCalls
    /\ calls' = calls + 1
    /\ op' = [op EXCEPT ![p] = [o EXCEPT !.on = "target"]]
    /\ recv' = [recv EXCEPT ![p] = targetCopy]
    /\ pc' = [pc EXCEPT ![p] = IF target.mx # 0 THEN "blocked" ELSE first]

\* A call of a method with a pointer receiver on the other Cache: it waits for
\* that Cache's own mutex.
EnterTargetLocked(p, o, first) ==
    /\ target.data # 0
    /\ pc[p] = "idle"
    /\ calls < MaxCalls
    /\ target.mx = 0
    /\ target' = [target EXCEPT !.mx = p]
    /\ calls' = calls + 1
    /\ op' = [op EXCEPT ![p] = [o EXCEPT !.on = "target"]]
    /\ pc' = [pc EXCEPT ![p] = first]

\* nc.Add(key, val) and nc.Remove(key); their steps are AddStep, AddReturn and
\* RemoveStep.
CallTargetAdd(p, k, v) ==
    /\ target.Requirements.timeoutInUse => Len(timers) + sumPending(Procs) + 1 <= MaxTimers
    /\ EnterTarget(p, [NoOp EXCEPT !.name = "Add", !.key = k, !.val = v], "add")
    /\ UNCHANGED <<counterCache, chanCache, Requirements, target, nilHandle, data, mx, maps, timers, loc>>

CallTargetRemove(p, k) ==
    /\ EnterTarget(p, [NoOp EXCEPT !.name = "Remove", !.key = k], "remove")
    /\ UNCHANGED <<counterCache, chanCache, Requirements, target, nilHandle, data, mx, maps, timers, loc>>

\* nc.Reset()
TargetResetLock(p) ==
    /\ EnterTargetLocked(p, [NoOp EXCEPT !.name = "Reset"], "target_reset")
    /\ UNCHANGED <<counterCache, chanCache, Requirements, nilHandle, data, mx, maps, timers, recv, loc>>

TargetResetStep(p) ==
    /\ pc[p] = "target_reset"
    /\ maps' = Append(maps, EmptyMap)
    /\ target' = [target EXCEPT !.data = Len(maps) + 1, !.mx = 0]
    /\ Return(p)
    /\ UNCHANGED <<counterCache, chanCache, Requirements, nilHandle, data, mx, timers, calls>>

\* nc.GetAllAndRemove()
TargetGetAllAndRemoveLock(p) ==
    /\ EnterTargetLocked(p, [NoOp EXCEPT !.name = "GetAllAndRemove"], "target_gaar_copy")
    /\ UNCHANGED <<counterCache, chanCache, Requirements, nilHandle, data, mx, maps, timers, recv, loc>>

TargetGetAllAndRemoveCopy(p) ==
    /\ pc[p] = "target_gaar_copy"
    /\ loc' = [loc EXCEPT ![p].cpy = copyValues(maps[target.data])]
    /\ pc' = [pc EXCEPT ![p] = "target_reset"]
    /\ UNCHANGED <<counterCache, chanCache, Requirements, target, nilHandle, data, mx, maps, timers, op, recv, calls>>

\* One goroutine fills the Store, copies it, and then adds to, removes from and
\* empties either of the two Caches; the timers of both fire on goroutines of
\* their own.
NextCopy ==
    \/ \E p \in Caller, k \in Keys, v \in Vals : CallAdd(p, k, v)
    \/ \E p \in Caller : AddStep(p)
    \/ \E p \in Caller : AddReturn(p)
    \/ \E p \in Caller, k \in Keys : CallRemove(p, k)
    \/ \E p \in Caller : RemoveStep(p)
    \/ \E p \in Caller : GetAllAndRemoveLock(p)
    \/ \E p \in Caller : GetAllAndRemoveCopy(p)
    \/ \E p \in Caller : GetAllAndRemoveReset(p)
    \/ \E p \in Caller : ResetLock(p)
    \/ \E p \in Caller : ResetStep(p)
    \/ \E p \in Caller : CallCopy(p)
    \/ \E p \in Caller : CopyNew(p)
    \/ \E p \in Caller : AddBulkStep(p)
    \/ \E p \in Caller : AddBulkReturn(p)
    \/ \E p \in Caller, k \in Keys, v \in Vals : CallTargetAdd(p, k, v)
    \/ \E p \in Caller, k \in Keys : CallTargetRemove(p, k)
    \/ \E p \in Caller : TargetResetLock(p)
    \/ \E p \in Caller : TargetResetStep(p)
    \/ \E p \in Caller : TargetGetAllAndRemoveLock(p)
    \/ \E p \in Caller : TargetGetAllAndRemoveCopy(p)
    \/ \E t \in TimerIds : Fire(t)
    \/ \E t \in TimerIds : Expire(t)

SpecCopy == Init /\ [][NextCopy]_vars

----------------------------------------------------------------------------
\* The variant of the package whose Cache is {data, mx, counter}: a map of
\* values, and every method has a pointer receiver, so it locks the Cache's own
\* mutex. The calls on it leave the Store alone.

\* New(), for the two variants: the Store is made too, without a timeout, and
\* is not used.
InitVariants ==
    /\ Requirements = makeRequirementsSensible(NoRequirements)
    /\ target = NoStore
    /\ data = 1
    /\ mx = 0
    /\ maps = << EmptyMap >>
    /\ timers = << >>
    /\ pc = [p \in Procs |-> "idle"]
    /\ op = [p \in Procs |-> NoOp]
    /\ recv = [p \in Procs |-> NoRecv]
    /\ loc = [p \in Procs |-> NoLoc]
    /\ calls = 0
    /\ nilHandle = "none"
    /\ counterCache = NewCounterCache
    /\ chanCache = NewChanCache

\* c.mx.Lock() at the head of Add, Remove and Reset: it waits for the mutex.
CounterLock(p, o, first) ==
    /\ pc[p] = "idle"
    /\ calls < MaxCalls
    /\ counterCache.mx = 0
    /\ counterCache' = [counterCache EXCEPT !.mx = p]
    /\ calls' = calls + 1
    /\ op' = [op EXCEPT ![p] = o]
    /\ pc' = [pc EXCEPT ![p] = first]
    /\ UNCHANGED <<Requirements, target, nilHandle, data, mx, maps, timers, recv,
                 loc, chanCache>>

\* The deferred c.mx.Unlock() and the return, after the body has made c of the
\* Cache.
CounterUnlock(p, c) ==
    /\ counterCache' = [c EXCEPT !.mx = 0]
    /\ pc' = [pc EXCEPT ![p] = "idle"]
    /\ op' = [op EXCEPT ![p] = NoOp]
    /\ UNCHANGED <<Requirements, target, nilHandle, data, mx, maps, timers, recv,
                 loc, calls, chanCache>>

\* Add: c.data[key] = val; c.counter++
counterAdd(c, key, val) ==
    [c EXCEPT !.data = put(@, key, val), !.counter = @ + 1]

\* Remove: delete(c.data, key); c.counter--
counterRemove(c, key) ==
    [c EXCEPT !.data = remove(@, key), !.counter = @ - 1]

\* Reset: c.data = make(map[TKey]TValue); c.counter = 0
counterReset(c) ==
    [c EXCEPT !.data = EmptyMap, !.counter = 0]

CounterAddLock(p, k, v) ==
    CounterLock(p, [NoOp EXCEPT !.name = "Add", !.key = k, !.val = v], "counter_add")

CounterAddStep(p) ==
    /\ pc[p] = "counter_add"
    /\ CounterUnlock(p, counterAdd(counterCache, op[p].key, op[p].val))

CounterRemoveLock(p, k) ==
    CounterLock(p, [NoOp EXCEPT !.name = "Remove", !.key = k], "counter_remove")

CounterRemoveStep(p) ==
    /\ pc[p] = "counter_remove"
    /\ CounterUnlock(p, counterRemove(counterCache, op[p].key))

CounterResetLock(p) ==
    CounterLock(p, [NoOp EXCEPT !.name = "Reset"], "counter_reset")

CounterResetStep(p) ==
    /\ pc[p] = "counter_reset"
    /\ CounterUnlock(p, counterReset(counterCache))

\* Count(): return c.counter, between RLock and RUnlock, which wait for a
\* writer to unlock.
CounterCountResult == counterCache.counter

\* A call of Count, Get or Exist: RLock, one read, RUnlock and the return.
CounterRead(p) ==
    /\ pc[p] = "idle"
    /\ calls < MaxCalls
    /\ counterCache.mx = 0
    /\ calls' = calls + 1
    /\ UNCHANGED <<Requirements, target, nilHandle, data, mx, maps, timers, recv,
                 pc, op, loc, counterCache, chanCache>>

NextCounter ==
    \/ \E p \in Procs, k \in Keys, v \in Vals : CounterAddLock(p, k, v)
    \/ \E p \in Procs : CounterAddStep(p)
    \/ \E p \in Procs, k \in Keys : CounterRemoveLock(p, k)
    \/ \E p \in Procs : CounterRemoveStep(p)
    \/ \E p \in Procs : CounterResetLock(p)
    \/ \E p \in Procs : CounterResetStep(p)
    \/ \E p \in Procs : CounterRead(p)

SpecCounter == InitVariants /\ [][NextCounter]_vars

----------------------------------------------------------------------------
\* The variant of the package whose Cache is served by one goroutine,
\* cacheManager: a public method sends its argument on the unbuffered channel
\* of its kind and, when it returns something, receives the answer on the
\* return channel of its kind. Only the manager touches data and counter.

\* add(key, val): the counter goes up whether or not the key is there.
chanAddCounts(c, key, val) ==
    [c EXCEPT !.counter = @ + 1, !.data = put(@, key, val)]

\* add(key, val): c.counter++ when the key is not there; c.data[key] = val
chanAdd(c, key, val) ==
    [c EXCEPT !.counter = IF key \in DOMAIN c.data THEN @ ELSE @ + 1,
              !.data = put(@, key, val)]

\* addBulk(d): nothing for nil, else c.add(k, v) for every pair of d, in any
\* order (the pairs still to come are passed on).
RECURSIVE chanAddBulk(_, _, _)
chanAddBulk(c, isNil, d) ==
    IF isNil \/ DOMAIN d = {} THEN c
    ELSE LET k == CHOOSE x \in DOMAIN d : TRUE
         IN chanAddBulk(chanAdd(c, k, d[k]), FALSE, [x \in DOMAIN d \ {k} |-> d[x]])

\* remove(key): nothing when the key is not there, else delete and c.counter--
chanRemove(c, key) ==
    IF key \notin DOMAIN c.data THEN c
    ELSE [c EXCEPT !.data = remove(@, key), !.counter = @ - 1]

\* removeBulk(keys): nothing for nil or empty, else c.remove(key) for every key
\* in order (the keys still to come are passed on).
RECURSIVE chanRemoveBulk(_, _, _)
chanRemoveBulk(c, isNil, keys) ==
    IF isNil \/ Len(keys) < 1 THEN c
    ELSE chanRemoveBulk(chanRemove(c, Head(keys)), FALSE, Tail(keys))

\* reset(): c.data = make(map[TKey]TValue); c.counter = 0
chanReset(c) == [c EXCEPT !.data = EmptyMap, !.counter = 0]

\* get(key): c.data[key], the zero value for an absent key
chanGet(c, key) == IF key \in DOMAIN c.data THEN c.data[key] ELSE ZeroVal

\* getBulk(d): results[k] = c.data[k] for every k of d
chanGetBulk(c, isNil, keys) ==
    IF isNil \/ Len(keys) < 1 THEN EmptyMap
    ELSE [k \in {keys[i] : i \in DOMAIN keys} |-> chanGet(c, k)]

\* getAll(): a copy of data
chanGetAll(c) == [k \in DOMAIN c.data |-> c.data[k]]

\* exist(key)
chanExist(c, key) == key \in DOMAIN c.data

\* count(): c.counter
chanCount(c) == c.counter

\* The channel a public method sends on, and the one it then receives on
\* ("none" for the methods that return nothing).
sendChan(name) ==
    CASE name \in {"Add", "AddBulk"} -> "addChan"
      [] name \in {"Remove", "RemoveBulk"} -> "removeChan"
      [] name = "Reset" -> "resetChan"
      [] name = "Get" -> "getSingleChan"
      [] name = "GetBulk" -> "getBulkChan"
      [] name = "GetAll" -> "getAllChan"
      [] name = "Exist" -> "existChan"
      [] name = "Count" -> "getCountChan"

awaits(name) ==
    CASE name = "Get" -> "returnSingleChan"
      [] name = "GetBulk" -> "returnBulkCHan"
      [] name = "GetAll" -> "returnGetAllChan"
      [] name = "Exist" -> "returnExistChan"
      [] name = "Count" -> "returnCountChan"
      [] OTHER -> "none"

\* A manager that answers every request on returnCountChan.
returnChanCount(ch) ==
    IF ch \in {"addChan", "removeChan", "resetChan"} THEN "none" ELSE "returnCountChan"

\* The channel the manager's select case for channel ch sends its answer on.
returnChan(ch) ==
    CASE ch = "existChan" -> "returnExistChan"
      [] ch = "getCountChan" -> "returnCountChan"
      [] ch = "getAllChan" -> "returnGetAllChan"
      [] ch = "getBulkChan" -> "returnBulkCHan"
      [] ch = "getSingleChan" -> "returnSingleChan"
      [] OTHER -> "none"

\* A manager that takes the next request whatever it is doing.
canReceiveAlways(c) == TRUE

\* The manager is at its select, ready to receive on every request channel.
canReceive(c) == c.at = "select"

\* A public method is called: the goroutine is at its send, c.xChan <- v.
ChanCall(p, o) ==
    /\ pc[p] = "idle"
    /\ calls < MaxCalls
    /\ calls' = calls + 1
    /\ op' = [op EXCEPT ![p] = o]
    /\ pc' = [pc EXCEPT ![p] = "chan_send"]
    /\ UNCHANGED <<Requirements, target, nilHandle, data, mx, maps, timers, recv,
                 loc, counterCache, chanCache>>

ChanCallAdd(p, k, v) ==
    ChanCall(p, [NoOp EXCEPT !.name = "Add", !.d = put(EmptyMap, k, v)])

ChanCallAddBulk(p, b) ==
    ChanCall(p, [NoOp EXCEPT !.name = "AddBulk", !.nil = b.nil, !.d = b.d])

ChanCallRemove(p, k) ==
    ChanCall(p, [NoOp EXCEPT !.name = "Remove", !.keys = <<k>>])

ChanCallRemoveBulk(p, b) ==
    ChanCall(p, [NoOp EXCEPT !.name = "RemoveBulk", !.nil = b.nil, !.keys = b.keys])

ChanCallReset(p) ==
    ChanCall(p, [NoOp EXCEPT !.name = "Reset"])

ChanCallGet(p, k) ==
    ChanCall(p, [NoOp EXCEPT !.name = "Get", !.key = k])

ChanCallGetBulk(p, b) ==
    ChanCall(p, [NoOp EXCEPT !.name = "GetBulk", !.nil = b.nil, !.keys = b.keys])

ChanCallGetAll(p) ==
    ChanCall(p, [NoOp EXCEPT !.name = "GetAll"])

ChanCallExist(p, k) ==
    ChanCall(p, [NoOp EXCEPT !.name = "Exist", !.key = k])

ChanCallCount(p) ==
    ChanCall(p, [NoOp EXCEPT !.name = "Count"])

\* The send of p meets the receive of the manager's select: the manager has the
\* request; p returns when its method returns nothing, and else goes on to its
\* receive, <-c.returnXChan.
ManagerReceive(p) ==
    /\ pc[p] = "chan_send"
    /\ canReceive(chanCache)
    /\ chanCache' = [chanCache EXCEPT
                       !.at = "handle",
                       !.before = chanCache.data,
                       !.req = [from |-> p, chan |-> sendChan(op[p].name), d |-> op[p].d,
                                keys |-> op[p].keys, nil |-> op[p].nil, key |-> op[p].key]]
    /\ IF awaits(op[p].name) = "none"
       THEN /\ pc' = [pc EXCEPT ![p] = "idle"]
            /\ op' = [op EXCEPT ![p] = NoOp]
       ELSE /\ pc' = [pc EXCEPT ![p] = "chan_recv"]
            /\ op' = op
    /\ UNCHANGED <<Requirements, target, nilHandle, data, mx, maps, timers, recv,
                 loc, calls, counterCache>>

\* The body of the select case that received: the request is applied to data
\* and counter, or its answer is computed and the manager is at its send,
\* c.returnXChan <- answer.
ManagerHandle ==
    /\ chanCache.at = "handle"
    /\ LET c == chanCache
           r == chanCache.req
       IN chanCache' =
            CASE r.chan = "addChan" ->
                   [chanAddBulk(c, r.nil, r.d) EXCEPT !.at = "select"]
              [] r.chan = "removeChan" ->
                   [chanRemoveBulk(c, r.nil, r.keys) EXCEPT !.at = "select"]
              [] r.chan = "resetChan" ->
                   [chanReset(c) EXCEPT !.at = "select"]
              [] OTHER ->
                   [c EXCEPT
                      !.at = "send",
                      !.resp = [to |-> r.from,
                                chan |-> returnChan(r.chan),
                                val |-> CASE r.chan = "existChan" -> chanExist(c, r.key)
                                          [] r.chan = "getCountChan" -> chanCount(c)
                                          [] r.chan = "getAllChan" -> chanGetAll(c)
                                          [] r.chan = "getBulkChan" ->
                                               chanGetBulk(c, r.nil, r.keys)
                                          [] r.chan = "getSingleChan" -> chanGet(c, r.key)]]
    /\ UNCHANGED <<Requirements, target, nilHandle, data, mx, maps, timers, recv,
                 pc, op, loc, calls, counterCache>>

\* The manager's send meets the receive of a goroutine that waits on that
\* return channel: the goroutine has the answer and returns it.
ManagerSend(p) ==
    /\ chanCache.at = "send"
    /\ pc[p] = "chan_recv"
    /\ awaits(op[p].name) = chanCache.resp.chan
    /\ chanCache' = [chanCache EXCEPT !.at = "select"]
    /\ pc' = [pc EXCEPT ![p] = "idle"]
    /\ op' = [op EXCEPT ![p] = NoOp]
    /\ UNCHANGED <<Requirements, target, nilHandle, data, mx, maps, timers, recv,
                 loc, calls, counterCache>>

NextChan ==
    \/ \E p \in Procs, k \in Keys, v \in Vals : ChanCallAdd(p, k, v)
    \/ \E p \in Procs, b \in BulkMaps : ChanCallAddBulk(p, b)
    \/ \E p \in Procs, k \in Keys : ChanCallRemove(p, k)
    \/ \E p \in Procs, b \in BulkKeys : ChanCallRemoveBulk(p, b)
    \/ \E p \in Procs : ChanCallReset(p)
    \/ \E p \in Procs, k \in Keys : ChanCallGet(p, k)
    \/ \E p \in Procs, b \in BulkKeys : ChanCallGetBulk(p, b)
    \/ \E p \in Procs : ChanCallGetAll(p)
    \/ \E p \in Procs, k \in Keys : ChanCallExist(p, k)
    \/ \E p \in Procs : ChanCallCount(p)
    \/ \E p \in Procs : ManagerReceive(p)
    \/ ManagerHandle
    \/ \E p \in Procs : ManagerSend(p)

SpecChan == InitVariants /\ [][NextChan]_vars

\* The calls with the arguments narrowed to one key and one value, nil and
\* one-key bulk arguments: what a call waits for does not depend on the keys.
NextChanLive ==
    \/ \E p \in Procs, k \in {1}, v \in {1} : ChanCallAdd(p, k, v)
    \/ \E p \in Procs, b \in {x \in BulkMaps : x.nil \/ DOMAIN x.d = {1}} :
         ChanCallAddBulk(p, b)
    \/ \E p \in Procs, k \in {1} : ChanCallRemove(p, k)
    \/ \E p \in Procs, b \in {x \in BulkKeys : x.nil \/ Len(x.keys) = 1} :
         ChanCallRemoveBulk(p, b)
    \/ \E p \in Procs : ChanCallReset(p)
    \/ \E p \in Procs, k \in {1} : ChanCallGet(p, k)
    \/ \E p \in Procs, b \in {x \in BulkKeys : x.nil \/ Len(x.keys) = 1} :
         ChanCallGetBulk(p, b)
    \/ \E p \in Procs : ChanCallGetAll(p)
    \/ \E p \in Procs, k \in {1} : ChanCallExist(p, k)
    \/ \E p \in Procs : ChanCallCount(p)
    \/ \E p \in Procs : ManagerReceive(p)
    \/ ManagerHandle
    \/ \E p \in Procs : ManagerSend(p)

\* The program with a manager goroutine that is scheduled: it goes on when it
\* can, its select takes every sender that keeps waiting, and a goroutine that
\* waits for its answer is scheduled to take it.
SpecChanFair ==
    /\ InitVariants /\ [][NextChanLive]_vars
    /\ WF_vars(ManagerHandle)
    /\ \A p \in Procs : SF_vars(ManagerReceive(p))
    /\ \A p \in Procs : WF_vars(ManagerSend(p))

----------------------------------------------------------------------------
\* Properties

\* A goroutine is inside the critical section of the method it runs: between
\* the Lock (or RLock) that returned and the Unlock. (The traversal of ForEach
\* runs after GetAll has unlocked.)
InCS(p) == pc[p] \notin {"idle", "blocked", "foreach", "samples", "fatal"}

MutatingOps ==
    {"Add", "AddBulk", "Remove", "RemoveBulk", "GetAndRemove", "GetAllAndRemove", "Reset"}

Mutating(p) == InCS(p) /\ op[p].name \in MutatingOps

\* The callback of a fired timer is inside the critical section of its Remove.
CallbackInCS(t) == timers[t].state = "running"

\* C1: while a mutating execution (Add, AddBulk, Remove, RemoveBulk,
\* GetAndRemove, GetAllAndRemove, Reset, or the Remove of a timer callback) is
\* inside its critical section, no other execution, mutating or reading, is
\* inside its own on the same Store.
C1_MutualExclusion ==
    /\ \A p, q \in Procs : (p # q /\ Mutating(p)) => ~InCS(q)
    /\ \A t \in TimerIds : CallbackInCS(t) => \A p \in Procs : ~InCS(p)
    /\ \A t, u \in TimerIds : (t # u /\ CallbackInCS(t)) => ~CallbackInCS(u)

\* C2: the number Count() returns is the number of keys in the Store's entries
\* at the moment it reads it.
C2_CountIsNumberOfKeys ==
    [][\A p \in Procs : CountStep(p) => CountResult(p) = Cardinality(DOMAIN Entries)]_vars

\* C3: the timer of an entry that an Add has overwritten never removes anything
\* from the Store: its callback leaves the Store's entries as they are.
C3_OverwrittenTimerDisposed ==
    [][\A t \in TimerIds :
         (Expire(t) /\ timers[t].left = "overwritten") => Entries' = Entries]_vars

\* C4: the timer of an entry that Remove, RemoveBulk or GetAndRemove has removed
\* never removes an entry a later Add stored: its callback leaves the Store's
\* entries as they are.
C4_RemovedTimerHarmless ==
    [][\A t \in TimerIds :
         (Expire(t) /\ timers[t].left = "removed") => Entries' = Entries]_vars

\* C5: in a run that consists of Adds of different keys, all returned, on a
\* Store with a timeout, once every timer has fired and no callback has
\* anything left to do, the Store is empty (Count() is 0).
OnlyAddsOfDistinctKeys ==
    /\ Requirements.timeoutInUse
    /\ calls = Len(timers)
    /\ \A p \in Procs : pc[p] = "idle"
    /\ \A t \in TimerIds : timers[t].handle
    /\ \A t, u \in TimerIds : t # u => timers[t].key # timers[u].key

C5_AllFiredThenEmpty ==
    (/\ OnlyAddsOfDistinctKeys
     /\ timers # << >>
     /\ \A t \in TimerIds : timers[t].state \in {"done", "stuck"})
        => Cardinality(DOMAIN Entries) = 0

\* C6: no expiry removes from the Store an entry whose own timer was stopped
\* before it fired.
C6_StoppedNeverExpires ==
    [][\A t \in TimerIds :
         Expire(t) =>
            \A k \in DOMAIN Entries :
                (Entries[k].timer # 0 /\ timers[Entries[k].timer].state = "stopped")
                    => k \in DOMAIN Entries']_vars

\* C7: Reset() leaves the Store empty, and the callback of a timer that was
\* armed before a Reset() and runs after it leaves the Store's entries as they
\* are, whatever has been added since.
C7_ResetOrphansTimers ==
    [][/\ \A p \in Procs : ResetStep(p) => Entries' = EmptyMap
       /\ \A t \in TimerIds : (Expire(t) /\ timers[t].orphan) => Entries' = Entries]_vars

\* C7's case: the callback of a timer armed before a Reset() is about to run its
\* c.remove(key) while key is in the Store again.
C7_Witness ==
    \E t \in TimerIds :
        timers[t].state = "running" /\ timers[t].orphan /\ Present(timers[t].key)

\* C8: what GetAndRemove read is what is there when it deletes: nothing took
\* effect on the key between its read and its delete.
C8_GetAndRemoveAtomic ==
    [][\A p \in Procs :
         GetAndRemoveDelete(p) =>
            lookup(maps[recv[p].data], op[p].key) = GetAndRemoveResult(p)]_vars

\* C9: the mapping GetAllAndRemove copies, and returns, holds exactly the keys
\* of the Store at that moment, each with its value, and its reset leaves the
\* Store with no key.
C9_DrainReturnsAll ==
    [][\A p \in Procs :
         /\ GetAllAndRemoveCopy(p) =>
               /\ DOMAIN loc'[p].cpy = DOMAIN Entries
               /\ \A k \in DOMAIN Entries : loc'[p].cpy[k] = Entries[k].Val
               /\ GetAllAndRemoveResult(p)' = loc'[p].cpy
         /\ GetAllAndRemoveReset(p) => Cardinality(DOMAIN Entries') = 0]_vars

\* C9's case: GetAllAndRemove has copied a Store that holds both keys and is
\* about to reset it.
C9_Witness ==
    \E p \in Procs : pc[p] = "gaar_reset" /\ DOMAIN GetAllAndRemoveResult(p) = Keys

\* C10: an Add that runs concurrently with GetAllAndRemove is never lost: when
\* GetAllAndRemove replaces the Store's map, every pair in that map is in the
\* mapping it returns, so a pair is either returned or still in the Store.
C10_AddNeverLost ==
    [][\A p \in Procs :
         GetAllAndRemoveReset(p) =>
            \A k \in DOMAIN Entries :
                /\ k \in DOMAIN GetAllAndRemoveResult(p)
                /\ GetAllAndRemoveResult(p)[k] = Entries[k].Val]_vars

\* A goroutine is in the middle of the batch of its AddBulk: the first pair is
\* in the map and the last one is not yet.
InBatch(p) ==
    pc[p] = "addbulk" /\ loc[p].todo # {} /\ loc[p].todo # DOMAIN op[p].d

\* Goroutine q executes the statement of a read method that reads map object m.
ReadsMap(q, m) ==
    /\ recv[q].data = m
    /\ GetStep(q) \/ ExistStep(q) \/ GetAllStep(q) \/ GetBulkStep(q) \/ CountStep(q)
        \/ GetAndRemoveRead(q)

\* C11: between the insertion of the first and of the last pair of an AddBulk
\* nothing else takes effect on the map it fills: the map changes by the
\* AddBulk's own insertions only, and no read method reads it.
C11_BulkIsOneSection ==
    [][\A p \in Procs :
         InBatch(p) =>
            /\ AddBulkStep(p) \/ maps'[recv[p].data] = maps[recv[p].data]
            /\ \A q \in Procs \ {p} : ~ReadsMap(q, recv[p].data)]_vars

\* C17: an Add on a key that is present replaces its value and leaves the
\* number of keys as it is, an Add on an absent key stores the value and
\* raises the number of keys by one, and a Remove lowers it by one when the key
\* is present and leaves it otherwise: so the number of keys is the number of
\* Adds on absent keys minus the number of Removes on present keys.
C17_AddCounts ==
    [][\A p \in Procs :
         LET m == recv[p].data
             k == op[p].key
         IN /\ AddStep(p) =>
                 /\ k \in DOMAIN maps'[m] /\ maps'[m][k].Val = op[p].val
                 /\ \A j \in DOMAIN maps[m] \ {k} :
                        j \in DOMAIN maps'[m] /\ maps'[m][j] = maps[m][j]
                 /\ Cardinality(DOMAIN maps'[m]) =
                        Cardinality(DOMAIN maps[m]) + (IF k \in DOMAIN maps[m] THEN 0 ELSE 1)
            /\ RemoveStep(p) =>
                 Cardinality(DOMAIN maps'[m]) =
                        Cardinality(DOMAIN maps[m]) - (IF k \in DOMAIN maps[m] THEN 1 ELSE 0)]_vars

\* C17's case: an Add has just stored a new value over the entry of a key that
\* was present, and the Store holds that one key with the new value.
C17_Witness ==
    \E p \in Procs :
        /\ pc[p] = "addret"
        /\ recv[p].data = data
        /\ Cardinality(DOMAIN Entries) = 1
        /\ Present(op[p].key) /\ Entries[op[p].key].Val = 2
        /\ \E t \in TimerIds :
             timers[t].left = "overwritten" /\ timers[t].key = op[p].key
                /\ timers[t].data = data

\* C18: a Remove, and each turn of a RemoveBulk, leaves its key absent and the
\* other entries as they were, so that removing the key once more changes
\* nothing; on a key that is absent it leaves the map and the timers unchanged.
C18_RemoveIdempotent ==
    [][\A p \in Procs :
         LET m == recv[p].data
             k == IF pc[p] = "removebulk" THEN Head(loc[p].keys) ELSE op[p].key
         IN (RemoveStep(p) \/ RemoveBulkStep(p)) =>
                /\ k \notin DOMAIN maps'[m]
                /\ remove(maps'[m], k) = maps'[m]
                /\ \A j \in DOMAIN maps[m] \ {k} :
                       j \in DOMAIN maps'[m] /\ maps'[m][j] = maps[m][j]
                /\ k \notin DOMAIN maps[m] => (maps' = maps /\ timers' = timers)
                /\ data' = data /\ mx' = mx /\ Requirements' = Requirements]_vars

\* C18's case: after two earlier calls a Remove, or a turn of a RemoveBulk, is
\* about to delete a key that is absent from a Store that holds another key.
C18_Witness ==
    \E p \in Procs :
        /\ pc[p] \in {"remove", "removebulk"}
        /\ recv[p].data = data
        /\ LET k == IF pc[p] = "removebulk" THEN Head(loc[p].keys) ELSE op[p].key
           IN ~Present(k) /\ Entries # EmptyMap
        /\ calls >= 3

\* The key/value mapping a map object holds.
Mapping(m) == [k \in DOMAIN m |-> m[k].Val]

\* C19: when AddBulk(d), the first call on a new Store, returns, the Store holds
\* the mapping d; and a GetAll() called on a Store returns the mapping the
\* Store holds at that moment: so GetAll() right after AddBulk(d) returns d.
C19_RoundTrip ==
    [][\A p \in Procs :
         /\ (AddBulkReturn(p) /\ calls = 1) => Mapping(Entries') = op[p].d
         /\ (CallGetAll(p) /\ pc'[p] = "getall") =>
                GetAllResult(p)' = Mapping(Entries)]_vars

\* C19's case: GetAll() is running as the second call, right after an AddBulk of
\* two pairs on a Store with a timeout, no timer has fired, and what it
\* returns is those two pairs.
C19_Witness ==
    \E p \in Procs :
        /\ pc[p] = "getall"
        /\ calls = 2
        /\ \A q \in Procs \ {p} : pc[q] = "idle"
        /\ Requirements.timeoutInUse
        /\ Len(timers) = 2
        /\ \A t \in TimerIds : timers[t].state = "armed" /\ timers[t].owner = 0
        /\ GetAllResult(p) = (1 :> 1) @@ (2 :> 2)

Traversing(p) == pc[p] = "foreach" /\ loc[p].todo # {}

\* C20: while a ForEach traverses, nothing takes effect on the Store: its map
\* stays as it is and is not replaced; and a function that calls an operation
\* of the Store from inside the traversal never returns.
C20_ForEachHoldsLock ==
    [][\A p \in Procs :
         Traversing(p) =>
            /\ data' = data /\ Entries' = Entries
            /\ (ForEachStep(p) /\ op[p].f = "remove") => pc'[p] = "blocked"]_vars

\* The mapping a with the pairs of b put over it.
Override(a, b) ==
    [k \in (DOMAIN a) \cup (DOMAIN b) |-> IF k \in DOMAIN b THEN b[k] ELSE a[k]]

\* The mapping the other Cache holds.
TargetMapping == Mapping(maps[target.data])

\* C12: when Merge(a, b) returns, with nothing else running, b holds what it
\* held and a holds every key of a and of b, with b's value on the keys of b
\* and a's own value on the others.
C12_Merge ==
    [][\A p \in Procs :
         (AddBulkReturn(p) /\ op[p].name = "Merge") =>
            /\ data' = data /\ Entries' = Entries
            /\ Mapping(Entries') = op[p].pre.b
            /\ TargetMapping' = Override(op[p].pre.a, op[p].pre.b)]_vars

\* C12's case: Merge has stored its last pair; the two Caches shared a key on
\* which their values differed, and a held a key that b did not.
C12_Witness ==
    \E p \in Procs :
        /\ pc[p] = "addbulk" /\ op[p].name = "Merge" /\ loc[p].todo = {}
        /\ \E k \in DOMAIN op[p].pre.a \cap DOMAIN op[p].pre.b :
             op[p].pre.a[k] # op[p].pre.b[k] /\ TargetMapping[k] = op[p].pre.b[k]
        /\ DOMAIN op[p].pre.a \ DOMAIN op[p].pre.b # {}

\* C13: when MergeAndReset(target, source) returns, with nothing else running,
\* source is empty and target holds every key of both, with source's value on
\* the keys source held.
C13_MergeAndReset ==
    [][\A p \in Procs :
         (AddBulkReturn(p) /\ op[p].name = "MergeAndReset") =>
            /\ Entries' = EmptyMap
            /\ TargetMapping' = Override(op[p].pre.a, op[p].pre.b)]_vars

\* C13's case: MergeAndReset has stored its last pair; source held two keys,
\* one of them shared with target under another value, and is empty now.
C13_Witness ==
    \E p \in Procs :
        /\ pc[p] = "addbulk" /\ op[p].name = "MergeAndReset" /\ loc[p].todo = {}
        /\ DOMAIN op[p].pre.b = Keys
        /\ \E k \in DOMAIN op[p].pre.a : op[p].pre.a[k] # op[p].pre.b[k]
        /\ Entries = EmptyMap

\* The first MergeAndReset on the source is running: the source has, or had
\* until this call replaced it, the map it was made with.
FirstDrain(p) ==
    /\ op[p].name = "MergeAndReset"
    /\ Len(maps) = 2 \/ (Len(maps) = 3 /\ pc[p] = "addbulk")

\* C14: while the first MergeAndReset on a source runs, what a GetAll, a Count
\* or an Exist on the source is about to return is what it would have returned
\* before the drain or what it returns on an empty Store: all the entries or
\* none.
C14_DrainIsAtomic ==
    \A p \in Procs, q \in Procs :
        FirstDrain(p) =>
            /\ pc[q] = "getall" => GetAllResult(q) \in {op[p].pre.b, EmptyMap}
            /\ pc[q] = "count" =>
                 CountResult(q) \in {Cardinality(DOMAIN op[p].pre.b), 0}
            /\ pc[q] = "exist" =>
                 ExistResult(q) \in {op[q].key \in DOMAIN op[p].pre.b, FALSE}

\* C14's case: a MergeAndReset has drained a source of two keys and not yet
\* returned, and a GetAll that was called before the drain is about to read.
C14_Witness ==
    \E p \in Procs, q \in Procs :
        /\ op[p].name = "MergeAndReset" /\ pc[p] = "addbulk"
        /\ DOMAIN op[p].pre.b = Keys
        /\ Len(maps) = 3
        /\ pc[q] = "getall" /\ recv[q].data # data

\* C15: when Copy(source) returns, the new Cache has the Requirements of the
\* source and a map of its own that holds the mapping the source held when it
\* was copied; each of its entries has a timer exactly when the new Cache has a
\* timeout, and that timer is one armed for the new Cache's map, not the timer
\* of an entry of the source.
C15_Copy ==
    [][\A p \in Procs :
         (AddBulkReturn(p) /\ op[p].name = "Copy") =>
            /\ target'.Requirements = Requirements
            /\ target'.data # data
            /\ TargetMapping' = op[p].pre.b
            /\ \A k \in DOMAIN maps'[target'.data] :
                 LET e == maps'[target'.data][k]
                 IN /\ TimerExist(e) = target'.Requirements.timeoutInUse
                    /\ TimerExist(e) =>
                         /\ timers'[e.timer].data = target'.data
                         /\ timers'[e.timer].key = k
                         /\ timers'[e.timer].state = "armed"
                         /\ \A j \in DOMAIN Entries' : Entries'[j].timer # e.timer]_vars

\* C15's case: Copy has stored the last pair of a source with a timeout that
\* holds two keys.
C15_Witness ==
    \E p \in Procs :
        /\ pc[p] = "addbulk" /\ op[p].name = "Copy" /\ loc[p].todo = {}
        /\ Requirements.timeoutInUse
        /\ DOMAIN op[p].pre.b = Keys
        /\ DOMAIN maps[target.data] = Keys

\* C21: while GetRandomSamples ranges over a map object, no Add, Remove or
\* timer callback writes that map object.
C21_IterationIsProtected ==
    [][\A p \in Procs :
         (pc[p] = "samples" /\ pc'[p] = "samples")
            => maps'[recv[p].data] = maps[recv[p].data]]_vars

\* C22: after ResetTimer or SetAndResetTimer on an Entry whose timer had not
\* fired, the entry stays in the Store until that timer, counting anew, fires:
\* no other timer's expiry takes it out.
C22_ResetRestartsCountdown ==
    [][\A t \in TimerIds :
         Expire(t) =>
            \A k \in DOMAIN Entries :
               LET u == Entries[k].timer
               IN (u # 0 /\ u # t /\ timers[u].restarted /\ timers[u].state = "armed")
                     => k \in DOMAIN Entries']_vars

\* C23: removed is terminal: a timer that ResetTimer or SetAndResetTimer armed
\* again through the Entry of an entry that is no longer in the Store takes
\* nothing out of the Store when it fires, and no call on an Entry changes the
\* Store's contents itself.
C23_RemovedIsTerminal ==
    [][/\ \A t \in TimerIds : (Expire(t) /\ timers[t].revived) => Entries' = Entries
       /\ \A h \in Handles :
            (StopTimer(h) \/ ResetTimer(h) \/ SetTimer(h) \/ SetAndResetTimer(h))
               => Entries' = Entries]_vars

\* C24: TimerExist() on an Entry a caller holds is false when the Add armed no
\* timer, true while the timer of the Add is armed, and false once StopTimer()
\* has disarmed it.
C24_TimerExistIffArmed ==
    \A h \in Handles :
       /\ h = 0 => ~TimerExist(entry(ZeroVal, h))
       /\ (h # 0 /\ timers[h].state = "armed") => TimerExist(entry(ZeroVal, h))
       /\ (h # 0 /\ timers[h].state = "stopped") => ~TimerExist(entry(ZeroVal, h))

\* C25: GetRandomSamples(n) returns min(n, Count()) pairs when n >= 1 and none
\* when n < 1, and every pair it returns is a key of the Store with its value.
C25_SampleSize ==
    [][\A p \in Procs :
         GetRandomSamplesReturn(p) =>
            LET r == GetRandomSamplesResult(p)
                count == Cardinality(DOMAIN Entries)
            IN /\ Cardinality(DOMAIN r) =
                     IF op[p].n < 1 THEN 0
                     ELSE IF op[p].n < count THEN op[p].n ELSE count
               /\ \A k \in DOMAIN r : Present(k) /\ r[k] = Entries[k].Val]_vars

\* A GetRandomSamples(3) has taken both pairs of a Store of two and is about to
\* return them.
C25_Witness ==
    \E p \in Procs :
       /\ pc[p] = "samples"
       /\ op[p].n = 3
       /\ Cardinality(DOMAIN Entries) = 2
       /\ Cardinality(DOMAIN GetRandomSamplesResult(p)) = 2

\* C26: with no other goroutine and no timer at work, ForEach(f) takes the
\* pairs of the Store as its GetAll finds them and has called f exactly once
\* with each of them, and with nothing else, when it returns.
C26_ForEachOncePerPair ==
    [][\A p \in Procs :
         /\ ForEachGetAll(p) => loc'[p].cpy = Mapping(Entries)
         /\ ForEachReturn(p) =>
               LET called == loc[p].called
                   d == loc[p].cpy
               IN /\ Len(called) = Cardinality(DOMAIN d)
                  /\ {called[i] : i \in DOMAIN called} = {<<k, d[k]>> : k \in DOMAIN d}]_vars

\* ForEach has called f with both pairs of a Store of two whose values differ
\* from their keys.
C26_Witness ==
    \E p \in Procs :
       /\ pc[p] = "foreach"
       /\ Len(loc[p].called) = 2
       /\ \E i \in DOMAIN loc[p].called : loc[p].called[i][1] # loc[p].called[i][2]

\* C27: Get and GetAndRemove of an absent key return the zero value and false,
\* Exist returns false, and the Store is as it was; Get of a present key returns
\* its stored value and true.
C27_MissIsAValue ==
    [][\A p \in Procs :
         LET k == op[p].key
         IN /\ GetStep(p) =>
                 /\ GetResult(p) = IF Present(k) THEN [Val |-> Entries[k].Val, exist |-> TRUE]
                                   ELSE [Val |-> ZeroVal, exist |-> FALSE]
                 /\ maps' = maps /\ timers' = timers
            /\ ExistStep(p) =>
                 /\ ExistResult(p) = Present(k)
                 /\ maps' = maps /\ timers' = timers
            /\ (GetAndRemoveRead(p) /\ ~Present(k)) =>
                 /\ GetAndRemoveResult(p)' = [Val |-> ZeroVal, exist |-> FALSE]
                 /\ maps' = maps /\ timers' = timers
            /\ (GetAndRemoveDelete(p) /\ ~Present(k)) =>
                 /\ GetAndRemoveResult(p) = [Val |-> ZeroVal, exist |-> FALSE]
                 /\ maps' = maps /\ timers' = timers]_vars

\* A Get, and a GetAndRemove, of a key that is absent from a Store that is not
\* empty is about to return.
C27_Witness ==
    /\ Entries # EmptyMap
    /\ \E p \in Procs : pc[p] \in {"get", "gar_remove"} /\ ~Present(op[p].key)

\* C28: AddBulk of a nil or an empty mapping and RemoveBulk of a nil or an empty
\* list return, and leave the Store's entries and the timers as they were.
C28_EmptyBulkIsNoop ==
    [][\A p \in Procs :
         /\ \A b \in BulkMaps :
              (CallAddBulk(p, b) /\ (b.nil \/ b.d = EmptyMap)) =>
                 /\ maps' = maps /\ timers' = timers /\ data' = data
                 /\ IF b.nil THEN pc'[p] = "idle"
                    ELSE pc'[p] = "addbulk" /\ loc'[p].todo = {}
         /\ (pc[p] = "addbulk" /\ op[p].d = EmptyMap /\ pc'[p] # pc[p]) =>
                 /\ AddBulkReturn(p)
                 /\ maps' = maps /\ timers' = timers /\ data' = data
         /\ (pc[p] = "addbulk" /\ op[p].d = EmptyMap) => ~AddBulkStep(p)
         /\ \A b \in BulkKeys :
              (CallRemoveBulk(p, b) /\ (b.nil \/ b.keys = << >>)) =>
                 /\ maps' = maps /\ timers' = timers /\ data' = data
                 /\ pc'[p] = "idle"]_vars

\* An AddBulk of an empty mapping is about to return on a Store that holds an
\* entry.
C28_Witness ==
    \E p \in Procs :
       /\ pc[p] = "addbulk"
       /\ op[p].d = EmptyMap
       /\ Entries # EmptyMap

\* C29: ResetTimer() and StopTimer() on an Entry without a timer change
\* nothing: they arm no timer and touch no entry, and no expiry ever takes an
\* entry without a timer out of the Store.
C29_NoTimerHandleIgnored ==
    [][/\ (StopTimer(0) \/ ResetTimer(0)) =>
            /\ timers' = timers
            /\ maps' = maps
            /\ UNCHANGED <<counterCache, chanCache, Requirements, data, mx, pc>>
       /\ \A t \in TimerIds :
            Expire(t) => \A k \in DOMAIN Entries \ DOMAIN Entries' : Entries[k].timer # 0]_vars

\* A ResetTimer() was called on an Entry without a timer, and an entry without
\* a timer is in the Store.
C29_Witness ==
    /\ nilHandle = "reset"
    /\ \E k \in Keys : Present(k) /\ ~TimerExist(Entries[k])

C31_CopyIsIndependent ==
    [][(target.data # 0 /\ \A q \in Procs : op[q].name # "Copy") =>
          /\ \A p \in Procs :
               (pc[p] # "idle" /\ (pc'[p] # pc[p] \/ loc'[p] # loc[p])) =>
                  IF op[p].on = "store"
                  THEN maps'[target'.data] = maps[target.data]
                  ELSE maps'[data'] = maps[data]
          /\ \A t \in TimerIds :
               Expire(t) =>
                  IF timers[t].cache = "store"
                  THEN maps'[target'.data] = maps[target.data]
                  ELSE maps'[data'] = maps[data]]_vars

\* Copy has returned a Cache with an entry, and since then the Store has lost
\* or replaced that entry while the copy still holds it.
C31_Witness ==
    /\ target.data # 0
    /\ \A q \in Procs : pc[q] = "idle"
    /\ \E k \in Keys :
         /\ k \in DOMAIN maps[target.data]
         /\ ~Present(k) \/ Entries[k].Val # maps[target.data][k].Val

\* C32: in the variant with a counter field, whenever no call holds the mutex
\* the counter, which is what Count() returns, is the number of keys in data.
C32_CounterIsLen ==
    counterCache.mx = 0 =>
       CounterCountResult = Cardinality(DOMAIN counterCache.data)

\* C33: in the variant with a manager, the counter is the number of keys in
\* data before and after every request the manager handles.
C33_ManagedCounterIsLen ==
    chanCount(chanCache) = Cardinality(DOMAIN chanCache.data)

\* The manager has handled an add of a key that was present.
C33_Witness ==
    /\ chanCache.at = "select"
    /\ chanCache.req.chan = "addChan"
    /\ ~chanCache.req.nil
    /\ DOMAIN chanCache.req.d \cap DOMAIN chanCache.before # {}

\* C34: the answer the manager sends is received by the goroutine whose request
\* the manager computed it for.
C34_AnswerToItsCaller ==
    [][\A p \in Procs : ManagerSend(p) => chanCache.resp.to = p]_vars

\* The manager is sending the answer of one goroutine's call while the other
\* goroutine waits at the send of a call of the same method.
C34_Witness ==
    /\ chanCache.at = "send"
    /\ \E p, q \in Procs :
         /\ p # q
         /\ pc[p] = "chan_recv"
         /\ pc[q] = "chan_send"
         /\ op[q].name = op[p].name

\* C35: with the manager scheduled, every call of a public method returns.
C35_EveryCallReturns ==
    \A p \in Procs : (pc[p] # "idle") ~> (pc[p] = "idle")

\* Every call of the run has returned, the last of them a call that waited for
\* its answer.
C35_Witness ==
    /\ calls = MaxCalls
    /\ \A p \in Procs : pc[p] = "idle"
    /\ chanCache.at = "select"
    /\ chanCache.resp.to # 0

====
